---- MODULE Spec2Model ----
(***************************************************************************)
(* A model of tree_transform.py: the in-memory and overlay file stores,    *)
(* the StoreTree wrapper that enforces filesystem shape, and the           *)
(* TreeTransform context manager that turns recorded placements into an    *)
(* ordered list of renames.                                                *)
(*                                                                         *)
(* Python strings are sequences of one-character strings, so that string   *)
(* comparison, slicing, os.path.join/split/dirname/normpath/relpath and    *)
(* the identifier encoding are computed the way the code computes them.    *)
(* Exceptions are strings ("None" when the call returned).                 *)
(***************************************************************************)
EXTENDS Integers, Sequences, FiniteSets, TLC

(***************************************************************************)
(* Bounds of the model.                                                    *)
(***************************************************************************)
\* operations (tree calls or transform calls) in one behaviour
MaxOps == 2
\* scopes (with-blocks) entered in one behaviour
MaxScopes == 2
\* recording and query calls of a transform in one behaviour
MaxPlanOps == 3
\* renames in one list given to apply_renames
MaxRenames == 3

(***************************************************************************)
(* Strings.                                                                *)
(***************************************************************************)
\* the characters used, in code point order
Alphabet ==
    <<"-", ".", "/", "0", "1", "2", "a", "b", "c", "d", "e", "f", "h", "i",
      "l", "m", "n", "o", "r", "s", "t", "w", "x", "y", "z">>

Ord(c) == CHOOSE i \in 1..Len(Alphabet) : Alphabet[i] = c

Min(a, b) == IF a < b THEN a ELSE b

\* s < t for Python str
StrLess(s, t) ==
    LET n == Min(Len(s), Len(t))
        diff == {i \in 1..n : s[i] # t[i]}
    IN  IF diff = {} THEN Len(s) < Len(t)
        ELSE LET i == CHOOSE k \in diff : \A j \in diff : k <= j
             IN  Ord(s[i]) < Ord(t[i])

\* s.startswith(p)
StartsWith(s, p) == Len(s) >= Len(p) /\ SubSeq(s, 1, Len(p)) = p

\* s[:n]
Prefix(s, n) == SubSeq(s, 1, Min(n, Len(s)))

\* s[n:]
Suffix(s, n) == SubSeq(s, n + 1, Len(s))

Sep == "/"
Dot == <<".">>
DotDot == <<".", ".">>
Empty == <<>>

\* s.rfind('/') + 1
RFindSep(s) ==
    LET idx == {i \in 1..Len(s) : s[i] = Sep}
    IN  IF idx = {} THEN 0 ELSE CHOOSE k \in idx : \A j \in idx : j <= k

RECURSIVE RStripSep(_)
RStripSep(s) ==
    IF s # <<>> /\ s[Len(s)] = Sep THEN RStripSep(SubSeq(s, 1, Len(s) - 1))
    ELSE s

\* os.path.split(p)
OsSplit(p) ==
    LET i == RFindSep(p)
        head == Prefix(p, i)
        tail == Suffix(p, i)
    IN  IF head # <<>> /\ (\E k \in 1..Len(head) : head[k] # Sep)
        THEN <<RStripSep(head), tail>>
        ELSE <<head, tail>>

\* os.path.dirname(p)
Dirname(p) == OsSplit(p)[1]

\* os.path.basename(p)
Basename(p) == Suffix(p, RFindSep(p))

\* os.path.join(a, b)
OsJoin(a, b) ==
    IF StartsWith(b, <<Sep>>) THEN b
    ELSE IF a = <<>> \/ a[Len(a)] = Sep THEN a \o b
    ELSE a \o <<Sep>> \o b

\* s.split('/')
RECURSIVE SplitSep(_)
SplitSep(s) ==
    IF \A i \in 1..Len(s) : s[i] # Sep THEN <<s>>
    ELSE LET i == CHOOSE k \in 1..Len(s) :
                      s[k] = Sep /\ \A j \in 1..(k - 1) : s[j] # Sep
         IN  <<SubSeq(s, 1, i - 1)>> \o SplitSep(SubSeq(s, i + 1, Len(s)))

\* '/'.join(comps)
RECURSIVE JoinSep(_)
JoinSep(comps) ==
    IF comps = <<>> THEN <<>>
    ELSE IF Len(comps) = 1 THEN comps[1]
    ELSE comps[1] \o <<Sep>> \o JoinSep(Tail(comps))

\* the loop of os.path.normpath over the components
RECURSIVE NormComps(_, _, _)
NormComps(comps, new_comps, initial_slashes) ==
    IF comps = <<>> THEN new_comps
    ELSE LET comp == Head(comps)
             rest == Tail(comps)
         IN  IF comp = <<>> \/ comp = Dot
             THEN NormComps(rest, new_comps, initial_slashes)
             ELSE IF \/ comp # DotDot
                     \/ (initial_slashes = 0 /\ new_comps = <<>>)
                     \/ (new_comps # <<>> /\ new_comps[Len(new_comps)] = DotDot)
             THEN NormComps(rest, Append(new_comps, comp), initial_slashes)
             ELSE IF new_comps # <<>>
             THEN NormComps(rest, SubSeq(new_comps, 1, Len(new_comps) - 1),
                            initial_slashes)
             ELSE NormComps(rest, new_comps, initial_slashes)

\* os.path.normpath(path)
Normpath(path) ==
    IF path = <<>> THEN Dot
    ELSE LET initial_slashes ==
                 IF ~StartsWith(path, <<Sep>>) THEN 0
                 ELSE IF StartsWith(path, <<Sep, Sep>>)
                         /\ ~StartsWith(path, <<Sep, Sep, Sep>>) THEN 2
                 ELSE 1
             body == JoinSep(NormComps(SplitSep(path), <<>>, initial_slashes))
             res == [i \in 1..initial_slashes |-> Sep] \o body
         IN  IF res = <<>> THEN Dot ELSE res

\* the working directory of the process; relative paths are resolved
\* against it by os.path.abspath
Cwd == <<"/", "w">>

\* os.path.abspath(path)
Abspath(path) == Normpath(OsJoin(Cwd, path))

\* [x for x in s.split('/') if x]
NonEmptyComps(s) == SelectSeq(SplitSep(s), LAMBDA x : x # <<>>)

\* os.path.relpath from the component lists of the two absolute paths
RelpathOfLists(start_list, path_list) ==
    LET n == Min(Len(start_list), Len(path_list))
        diff == {k \in 1..n : start_list[k] # path_list[k]}
        i == IF diff = {} THEN n
             ELSE (CHOOSE k \in diff : \A j \in diff : k <= j) - 1
        rel_list == [k \in 1..(Len(start_list) - i) |-> DotDot]
                    \o SubSeq(path_list, i + 1, Len(path_list))
    IN  IF rel_list = <<>> THEN Dot ELSE JoinSep(rel_list)

\* os.path.relpath(path, start), for a non-empty path
Relpath(path, start) ==
    RelpathOfLists(NonEmptyComps(Abspath(start)), NonEmptyComps(Abspath(path)))

\* b''.join(strings)
RECURSIVE JoinBytes(_)
JoinBytes(strings) ==
    IF strings = <<>> THEN <<>> ELSE Head(strings) \o JoinBytes(Tail(strings))

\* an enumeration of a finite set, in an arbitrary fixed order
RECURSIVE SetToSeq(_)
SetToSeq(S) ==
    IF S = {} THEN <<>>
    ELSE LET x == CHOOSE y \in S : TRUE IN <<x>> \o SetToSeq(S \ {x})

(***************************************************************************)
(* Exceptions and results.                                                 *)
(***************************************************************************)
None == "None"
NoSuchFile == "NoSuchFile"
NoParent == "NoParent"
ParentNotDir == "ParentNotDir"
IsDirectory == "IsDirectory"
NotPending == "NotPending"
ValueError == "ValueError"
KeyError == "KeyError"
RecursionError == "RecursionError"

\* the value of a call that returned val
Ret(val) == [exc |-> None, val |-> val]
\* the outcome of a call that raised exc
Raise(exc) == [exc |-> exc, val |-> <<>>]

(***************************************************************************)
(* only_subpaths                                                           *)
(***************************************************************************)
only_subpaths(super_path, paths) ==
    {path \in paths :
        path = super_path \/ StartsWith(path, super_path \o <<Sep>>)}

(***************************************************************************)
(* MemoryFileStore: _content maps a path to <<mode, data>>.                *)
(***************************************************************************)
\* MemoryFileStore.DIRECTORY, a marker no blob is equal to
DIRECTORY == <<"<DIRECTORY>">>

\* d[k] = v
DictSet(d, k, v) == [x \in DOMAIN d \cup {k} |-> IF x = k THEN v ELSE d[x]]

\* del d[k]
DictDel(d, k) == [x \in DOMAIN d \ {k} |-> d[x]]

EmptyDict == [x \in {} |-> <<>>]

MemoryFileStore_iter_subpaths(content, full_path) ==
    only_subpaths(full_path, DOMAIN content)

MemoryFileStore_write_content(content, full_path, file_mode, strings) ==
    DictSet(content, full_path, <<file_mode, JoinBytes(strings)>>)

MemoryFileStore_mkdir(content, full_path, file_mode) ==
    DictSet(content, full_path, <<file_mode, DIRECTORY>>)

MemoryFileStore_read_content(content, full_path) ==
    IF full_path \notin DOMAIN content THEN Raise(NoSuchFile)
    ELSE IF content[full_path][2] = DIRECTORY THEN Raise(IsDirectory)
    ELSE Ret(<<content[full_path][2]>>)

MemoryFileStore_get_file_mode(content, full_path) ==
    IF full_path \notin DOMAIN content THEN Raise(NoSuchFile)
    ELSE Ret(content[full_path][1])

MemoryFileStore_discard(content, full_path) == DictDel(content, full_path)

\* the new _content, or KeyError when old_path is not a key
MemoryFileStore_rename(content, old_path, new_path) ==
    IF old_path \notin DOMAIN content THEN Raise(KeyError)
    ELSE Ret(DictSet(DictDel(content, old_path), new_path, content[old_path]))

(***************************************************************************)
(* File stores.  A store is a record: kind, content (_content of the       *)
(* MemoryFileStore, or of the store under the read-only base tree of an    *)
(* OverlayFileStore), overlay (_content of the overlay's MemoryFileStore), *)
(* overlay_content (a set) and renames (a dict, kept in insertion order as *)
(* a sequence of <<key, value>>).                                          *)
(***************************************************************************)
MEMORY == "MemoryFileStore"
OVERLAY == "OverlayFileStore"

\* BaseTree.full_path
full_path(tree_root, path) == OsJoin(tree_root, path)

\* BaseTree.relpath
relpath(tree_root, path) == Relpath(path, tree_root)

\* the keys of an insertion-ordered dict
OKeys(d) == {d[i][1] : i \in 1..Len(d)}

\* d.get(k, default)
OGet(d, k, default) ==
    IF k \in OKeys(d)
    THEN d[CHOOSE i \in 1..Len(d) : d[i][1] = k][2]
    ELSE default

\* d[k] = v: an existing key keeps its position, a new key goes last
OSet(d, k, v) ==
    IF k \in OKeys(d)
    THEN [i \in 1..Len(d) |-> IF d[i][1] = k THEN <<k, v>> ELSE d[i]]
    ELSE Append(d, <<k, v>>)

\* d without key k
ODel(d, k) == SelectSeq(d, LAMBDA kv : kv[1] # k)

\* the tree root of the read-only tree an overlay store has as its base
BaseRoot == <<>>

\* ReadOnlyStoreTree.read_content of the base of an overlay
Base_read_content(content, path) ==
    MemoryFileStore_read_content(content, full_path(BaseRoot, path))

\* ReadOnlyStoreTree.get_file_mode of the base of an overlay
Base_get_file_mode(content, path) ==
    MemoryFileStore_get_file_mode(content, full_path(BaseRoot, path))

\* ReadOnlyStoreTree.iter_subpaths of the base of an overlay: relpath
\* raises ValueError on the empty path
Base_iter_subpaths(content, path) ==
    LET sub == MemoryFileStore_iter_subpaths(content, full_path(BaseRoot, path))
    IN  IF <<>> \in sub THEN Raise(ValueError)
        ELSE Ret({relpath(BaseRoot, p) : p \in sub})

\* OverlayFileStore._base_path
OverlayFileStore_base_path(fs, current_path) ==
    OGet(fs.renames, current_path, current_path)

\* OverlayFileStore._current_paths: back_names is built in the order of
\* renames, so the last key that maps to a value wins
OverlayFileStore_current_paths(fs, paths) ==
    LET has(v) == \E i \in 1..Len(fs.renames) : fs.renames[i][2] = v
        back(v) == fs.renames[CHOOSE i \in 1..Len(fs.renames) :
                        /\ fs.renames[i][2] = v
                        /\ \A j \in 1..Len(fs.renames) :
                              fs.renames[j][2] = v => j <= i][1]
    IN  {IF has(p) THEN back(p) ELSE p : p \in paths}

\* a variant of OverlayFileStore.write_content that writes to the base
OverlayFileStore_write_through(fs, full, file_mode, strings) ==
    [fs EXCEPT !.content = MemoryFileStore_write_content(@, full, file_mode,
                                                         strings)]

OverlayFileStore_write_content(fs, full, file_mode, strings) ==
    [fs EXCEPT !.overlay_content = @ \cup {full},
               !.overlay = MemoryFileStore_write_content(@, full, file_mode,
                                                         strings)]

OverlayFileStore_mkdir(fs, full, file_mode) ==
    [fs EXCEPT !.overlay_content = @ \cup {full},
               !.overlay = MemoryFileStore_mkdir(@, full, file_mode)]

OverlayFileStore_read_content(fs, full) ==
    IF full \in fs.overlay_content
    THEN MemoryFileStore_read_content(fs.overlay, full)
    ELSE Base_read_content(fs.content, OverlayFileStore_base_path(fs, full))

OverlayFileStore_get_file_mode(fs, full) ==
    IF full \in fs.overlay_content
    THEN MemoryFileStore_get_file_mode(fs.overlay, full)
    ELSE Base_get_file_mode(fs.content, OverlayFileStore_base_path(fs, full))

\* OverlayFileStore.iter_subpaths, from the outcome base_subpaths of
\* base_tree.iter_subpaths
OverlayFileStore_merge_subpaths(fs, full, base_subpaths) ==
    IF base_subpaths.exc # None THEN base_subpaths
    ELSE Ret(only_subpaths(full,
                fs.overlay_content \cup OKeys(fs.renames)
                \cup OverlayFileStore_current_paths(fs, base_subpaths.val)))

OverlayFileStore_iter_subpaths(fs, full) ==
    OverlayFileStore_merge_subpaths(fs, full,
        Base_iter_subpaths(fs.content, OverlayFileStore_base_path(fs, full)))

OverlayFileStore_discard(fs, full) ==
    [fs EXCEPT !.overlay_content = @ \cup {full},
               !.overlay = MemoryFileStore_discard(@, full)]

\* the loop of OverlayFileStore.rename over the keys that pass the slice
\* test, taken in the order keys
RECURSIVE OverlayRenameLoop(_, _, _, _)
OverlayRenameLoop(fs, keys, old_path, new_path) ==
    IF keys = <<>> THEN [exc |-> None, fs |-> fs]
    ELSE LET key == Head(keys)
             new_key == new_path \o Suffix(key, Len(old_path))
             moved == MemoryFileStore_rename(fs.overlay, key, new_key)
             fs1 == [fs EXCEPT !.overlay_content = (@ \ {key}) \cup {new_key}]
         IN  IF moved.exc # None THEN [exc |-> moved.exc, fs |-> fs1]
             ELSE OverlayRenameLoop([fs1 EXCEPT !.overlay = moved.val],
                                    Tail(keys), old_path, new_path)

\* the orders in which a set can be iterated
RECURSIVE Orders(_)
Orders(S) ==
    IF S = {} THEN {<<>>}
    ELSE UNION {{<<x>> \o rest : rest \in Orders(S \ {x})} : x \in S}

\* OverlayFileStore.rename: the outcomes over the iteration orders of the
\* set overlay_content
OverlayFileStore_rename(fs, old_path, new_path) ==
    LET matching == {key \in fs.overlay_content :
                        Prefix(key, Len(old_path)) = old_path}
        finish(r) ==
            IF r.exc # None THEN r
            ELSE [exc |-> None,
                  fs |-> [r.fs EXCEPT !.renames =
                            OSet(ODel(@, old_path), new_path,
                                 OGet(@, old_path, old_path))]]
    IN  {finish(OverlayRenameLoop(fs, keys, old_path, new_path)) :
            keys \in Orders(matching)}

NewMemoryFileStore(content) ==
    [kind |-> MEMORY, content |-> content, overlay |-> EmptyDict,
     overlay_content |-> {}, renames |-> <<>>]

\* OverlayFileStore.__init__ over a read-only tree of base_content
NewOverlayFileStore(base_content) ==
    [kind |-> OVERLAY, content |-> base_content, overlay |-> EmptyDict,
     overlay_content |-> {}, renames |-> <<>>]

\* the calls a tree makes on its _file_store
Store_read_content(fs, full) ==
    IF fs.kind = MEMORY THEN MemoryFileStore_read_content(fs.content, full)
    ELSE OverlayFileStore_read_content(fs, full)

Store_get_file_mode(fs, full) ==
    IF fs.kind = MEMORY THEN MemoryFileStore_get_file_mode(fs.content, full)
    ELSE OverlayFileStore_get_file_mode(fs, full)

Store_iter_subpaths(fs, full) ==
    IF fs.kind = MEMORY
    THEN Ret(MemoryFileStore_iter_subpaths(fs.content, full))
    ELSE OverlayFileStore_iter_subpaths(fs, full)

Store_write_content(fs, full, file_mode, strings) ==
    IF fs.kind = MEMORY
    THEN [fs EXCEPT !.content =
              MemoryFileStore_write_content(@, full, file_mode, strings)]
    ELSE OverlayFileStore_write_content(fs, full, file_mode, strings)

Store_mkdir(fs, full, file_mode) ==
    IF fs.kind = MEMORY
    THEN [fs EXCEPT !.content = MemoryFileStore_mkdir(@, full, file_mode)]
    ELSE OverlayFileStore_mkdir(fs, full, file_mode)

Store_discard(fs, full) ==
    IF fs.kind = MEMORY
    THEN [fs EXCEPT !.content = MemoryFileStore_discard(@, full)]
    ELSE OverlayFileStore_discard(fs, full)

\* the set of outcomes [exc, fs] of _file_store.rename
Store_rename(fs, old_path, new_path) ==
    IF fs.kind = MEMORY
    THEN LET r == MemoryFileStore_rename(fs.content, old_path, new_path)
         IN  {IF r.exc # None THEN [exc |-> r.exc, fs |-> fs]
              ELSE [exc |-> None, fs |-> [fs EXCEPT !.content = r.val]]}
    ELSE OverlayFileStore_rename(fs, old_path, new_path)

(***************************************************************************)
(* ReadOnlyStoreTree and StoreTree: a tree is a tree_root and a store.     *)
(***************************************************************************)
\* a variant of _require_parent that lets a missing parent pass
require_parent_of_missing_ok(exc) ==
    IF exc = NoSuchFile \/ exc = IsDirectory THEN None
    ELSE IF exc = None THEN ParentNotDir
    ELSE exc

\* ReadOnlyStoreTree._require_parent, from the exception exc of reading the
\* parent: the exception raised, or None
require_parent_of(exc) ==
    IF exc = NoSuchFile THEN NoParent
    ELSE IF exc = IsDirectory THEN None
    ELSE IF exc = None THEN ParentNotDir
    ELSE exc

\* ReadOnlyStoreTree._require_parent: the exception raised, or None
require_parent(fs, full) ==
    require_parent_of(Store_read_content(fs, Dirname(full)).exc)

\* ReadOnlyStoreTree.iter_subpaths: relpath raises ValueError on ''
relative_subpaths(tree_root, sub) ==
    IF sub.exc # None THEN sub
    ELSE IF <<>> \in sub.val THEN Raise(ValueError)
    ELSE Ret({relpath(tree_root, p) : p \in sub.val})

StoreTree_iter_subpaths(tree_root, fs, path) ==
    relative_subpaths(tree_root,
                      Store_iter_subpaths(fs, full_path(tree_root, path)))

StoreTree_read_content(tree_root, fs, path) ==
    Store_read_content(fs, full_path(tree_root, path))

StoreTree_get_file_mode(tree_root, fs, path) ==
    Store_get_file_mode(fs, full_path(tree_root, path))

\* ReadOnlyStoreTree.make_subtree: the tree_root of the new handle
make_subtree(tree_root, path) == full_path(tree_root, path)

\* StoreTree.write_content: [exc, fs]
StoreTree_write_full(fs, full, exc, file_mode, strings) ==
    IF exc # None THEN [exc |-> exc, fs |-> fs]
    ELSE [exc |-> None,
          fs |-> Store_write_content(fs, full, file_mode, strings)]

StoreTree_write_content(tree_root, fs, path, file_mode, strings) ==
    StoreTree_write_full(fs, full_path(tree_root, path),
                         require_parent(fs, full_path(tree_root, path)),
                         file_mode, strings)

StoreTree_mkdir(tree_root, fs, path, file_mode) ==
    Store_mkdir(fs, full_path(tree_root, path), file_mode)

RECURSIVE DiscardAll(_, _)
DiscardAll(fs, sub_paths) ==
    IF sub_paths = <<>> THEN fs
    ELSE DiscardAll(Store_discard(fs, Head(sub_paths)), Tail(sub_paths))

\* StoreTree.rmtree, from the outcome sub of _file_store.iter_subpaths
discard_subpaths(fs, sub) ==
    IF sub.exc # None THEN [exc |-> sub.exc, fs |-> fs]
    ELSE [exc |-> None, fs |-> DiscardAll(fs, SetToSeq(sub.val))]

\* StoreTree.rmtree: [exc, fs]
StoreTree_rmtree(tree_root, fs, path) ==
    discard_subpaths(fs, Store_iter_subpaths(fs, full_path(tree_root, path)))

\* the mode of the directories the code creates
Mode700 == 448
\* the mode of the files of the initial trees
Mode600 == 384

\* StoreTree.mkdtemp with the eight random letters given
TempPrefix == <<"t", "r", "a", "n", "s", "f", "o", "r", "m", "-">>
StoreTree_mkdtemp(tree_root, fs, letters) ==
    LET name == TempPrefix \o letters
    IN  [name |-> name, fs |-> StoreTree_mkdir(tree_root, fs, name, Mode700)]

\* StoreTree.rename, from the full paths and the exception exc of
\* _require_parent
StoreTree_rename_full(fs, full_old_path, full_new_path, exc) ==
    IF exc # None THEN {[exc |-> exc, fs |-> fs]}
    ELSE Store_rename(fs, full_old_path, full_new_path)

StoreTree_rename(tree_root, fs, old_path, new_path) ==
    StoreTree_rename_full(fs, full_path(tree_root, old_path),
                          full_path(tree_root, new_path),
                          require_parent(fs, full_path(tree_root, new_path)))

\* BaseTree.apply_renames: the set of outcomes [exc, fs]; the loop ends at
\* the first rename that raises
RECURSIVE apply_renames(_, _, _)
apply_renames(tree_root, fs, renames) ==
    IF renames = <<>> THEN {[exc |-> None, fs |-> fs]}
    ELSE UNION {IF r.exc # None THEN {r}
                ELSE apply_renames(tree_root, r.fs, Tail(renames)) :
                   r \in StoreTree_rename(tree_root, fs, Head(renames)[1],
                                          Head(renames)[2])}

(***************************************************************************)
(* TreeTransform: the pure parts.  _name_info is a dict kept in insertion  *)
(* order, a sequence of <<file_id, <<parent_id, name>>>>.                  *)
(***************************************************************************)
EPrefix == <<"e", "-">>
NPrefix == <<"n", "-">>
RootId == <<"e", "-", ".">>

Digits == <<"0", "1", "2", "3", "4", "5", "6", "7", "8", "9">>

\* str(n) for n >= 0
RECURSIVE DecStr(_)
DecStr(n) ==
    IF n < 10 THEN <<Digits[n + 1]>>
    ELSE DecStr(n \div 10) \o <<Digits[(n % 10) + 1]>>

\* TreeTransform._tree_path_to_id, from normpath
id_of_normpath(normpath) ==
    IF StartsWith(normpath, DotDot) THEN Raise(ValueError)
    ELSE Ret(EPrefix \o normpath)

\* TreeTransform._tree_path_to_id
tree_path_to_id(path) == id_of_normpath(Normpath(path))

\* TreeTransform._tree_id_to_path
tree_id_to_path(file_id) ==
    IF Prefix(file_id, 2) # EPrefix THEN Raise(ValueError)
    ELSE Ret(Suffix(file_id, 2))

\* the identifier make_new_id builds from the counter value
new_id(counter, name) == NPrefix \o DecStr(counter) \o <<"-">> \o name

\* TreeTransform.acquire_existing_id: [exc, val, name_info].  With the
\* members inactive the membership test raises NotPending, after the test
\* of the path against '.' and ''.
RECURSIVE acquire_existing_id(_, _, _)
\* a variant of acquire_existing_id that records the original placement
\* again when the identifier has name-info
acquire_path_id_recording_again(is_active, ni, path, file_id) ==
        IF file_id.exc # None
        THEN [exc |-> file_id.exc, val |-> <<>>, name_info |-> ni]
        ELSE IF path \in {Dot, <<>>}
        THEN [exc |-> None, val |-> file_id.val, name_info |-> ni]
        ELSE IF ~is_active
        THEN [exc |-> NotPending, val |-> <<>>, name_info |-> ni]
        ELSE LET sp == OsSplit(path)
                 parent_id == acquire_existing_id(is_active, ni, sp[1])
             IN  IF parent_id.exc # None THEN parent_id
                 ELSE [exc |-> None, val |-> file_id.val,
                       name_info |-> OSet(parent_id.name_info, file_id.val,
                                          <<parent_id.val, sp[2]>>)]

\* a variant of acquire_existing_id that records the identifier under the
\* identifier of its parent directory without acquiring the parent
acquire_path_id_without_ancestors(is_active, ni, path, file_id) ==
        IF file_id.exc # None
        THEN [exc |-> file_id.exc, val |-> <<>>, name_info |-> ni]
        ELSE IF path \in {Dot, <<>>}
        THEN [exc |-> None, val |-> file_id.val, name_info |-> ni]
        ELSE IF ~is_active
        THEN [exc |-> NotPending, val |-> <<>>, name_info |-> ni]
        ELSE IF file_id.val \in OKeys(ni)
        THEN [exc |-> None, val |-> file_id.val, name_info |-> ni]
        ELSE LET sp == OsSplit(path)
                 parent_id == tree_path_to_id(sp[1])
             IN  IF parent_id.exc # None
                 THEN [exc |-> parent_id.exc, val |-> <<>>, name_info |-> ni]
                 ELSE [exc |-> None, val |-> file_id.val,
                       name_info |-> OSet(ni, file_id.val,
                                          <<parent_id.val, sp[2]>>)]

acquire_path_id(is_active, ni, path, file_id) ==
        IF file_id.exc # None
        THEN [exc |-> file_id.exc, val |-> <<>>, name_info |-> ni]
        ELSE IF path \in {Dot, <<>>}
        THEN [exc |-> None, val |-> file_id.val, name_info |-> ni]
        ELSE IF ~is_active
        THEN [exc |-> NotPending, val |-> <<>>, name_info |-> ni]
        ELSE IF file_id.val \in OKeys(ni)
        THEN [exc |-> None, val |-> file_id.val, name_info |-> ni]
        ELSE LET sp == OsSplit(path)
                 parent_id == acquire_existing_id(is_active, ni, sp[1])
             IN  IF parent_id.exc # None THEN parent_id
                 ELSE [exc |-> None, val |-> file_id.val,
                       name_info |-> OSet(parent_id.name_info, file_id.val,
                                          <<parent_id.val, sp[2]>>)]

acquire_existing_id(is_active, ni, path) ==
    acquire_path_id(is_active, ni, path, tree_path_to_id(path))

\* a variant of get_name that takes no account of the recorded name
get_name_of_path(ni, file_id) ==
    LET path == tree_id_to_path(file_id)
    IN  IF path.exc # None THEN path
        ELSE IF path.val = Dot THEN Raise(KeyError)
        ELSE Ret(Basename(path.val))

\* TreeTransform.get_name while active
get_name(ni, file_id) ==
    IF file_id \in OKeys(ni) THEN Ret(OGet(ni, file_id, <<>>)[2])
    ELSE LET path == tree_id_to_path(file_id)
         IN  IF path.exc # None THEN path
             ELSE IF path.val = Dot THEN Raise(KeyError)
             ELSE Ret(Basename(path.val))

\* TreeTransform.get_parent while active
get_parent(ni, file_id) ==
    IF file_id \in OKeys(ni) THEN Ret(OGet(ni, file_id, <<>>)[1])
    ELSE LET path == tree_id_to_path(file_id)
         IN  IF path.exc # None THEN path
             ELSE IF path.val = Dot THEN Raise(KeyError)
             ELSE tree_path_to_id(Dirname(path.val))

\* the argument default None of get_final_path
NoneArg == <<"<None>">>

\* a variant of get_final_path that places an identifier without name-info
\* under the final path of its parent
RECURSIVE get_final_path_through_ancestors(_, _, _, _, _)
get_final_path_through_ancestors(ni, file_id, parent_id, name, depth) ==
    IF depth = 0 THEN Raise(RecursionError)
    ELSE LET lookup == NoneArg \in {parent_id, name}
             final(p, n) ==
                 IF p = RootId THEN Ret(n)
                 ELSE LET parent_path ==
                              get_final_path_through_ancestors(
                                  ni, p, NoneArg, NoneArg, depth - 1)
                      IN  IF parent_path.exc # None THEN parent_path
                          ELSE Ret(OsJoin(parent_path.val, n))
         IN  IF ~lookup THEN final(parent_id, name)
             ELSE IF get_parent(ni, file_id).exc # None
             THEN get_parent(ni, file_id)
             ELSE final(get_parent(ni, file_id).val, get_name(ni, file_id).val)

\* TreeTransform.get_final_path while active.  depth counts the frames left:
\* a chain of parents longer than the number of entries of _name_info
\* repeats an identifier, and the recursion of the code then ends in
\* RecursionError.
RECURSIVE get_final_path(_, _, _, _, _)
get_final_path(ni, file_id, parent_id, name, depth) ==
    IF depth = 0 THEN Raise(RecursionError)
    ELSE LET lookup == NoneArg \in {parent_id, name}
             final(p, n) ==
                 IF p = RootId THEN Ret(n)
                 ELSE LET parent_path ==
                              get_final_path(ni, p, NoneArg, NoneArg, depth - 1)
                      IN  IF parent_path.exc # None THEN parent_path
                          ELSE Ret(OsJoin(parent_path.val, n))
         IN  IF lookup /\ file_id \notin OKeys(ni) THEN tree_id_to_path(file_id)
             ELSE IF lookup
             THEN final(OGet(ni, file_id, <<>>)[1], OGet(ni, file_id, <<>>)[2])
             ELSE final(parent_id, name)

\* the frames a terminating get_final_path can need
FinalPathDepth(ni) == Len(ni) + 2

\* list.sort(key=lambda p: p[k], reverse=reverse) as a stable insertion
\* sort: equal keys keep their order, also when reverse is set
SortLess(x, y, k, reverse) ==
    IF reverse THEN StrLess(y[k], x[k]) ELSE StrLess(x[k], y[k])

RECURSIVE InsertSorted(_, _, _, _)
InsertSorted(sorted, x, k, reverse) ==
    IF sorted = <<>> THEN <<x>>
    ELSE IF SortLess(x, Head(sorted), k, reverse) THEN <<x>> \o sorted
    ELSE <<Head(sorted)>> \o InsertSorted(Tail(sorted), x, k, reverse)

RECURSIVE StableSort(_, _, _)
StableSort(list, k, reverse) ==
    IF list = <<>> THEN <<>>
    ELSE InsertSorted(StableSort(SubSeq(list, 1, Len(list) - 1), k, reverse),
                      list[Len(list)], k, reverse)

\* a variant of the sort of remove_renames without reverse=True
SortRemoveRenamesAscending(remove_renames) ==
    StableSort(remove_renames, 1, FALSE)

\* remove_renames.sort(key=lambda p: p[0], reverse=True)
SortRemoveRenames(remove_renames) == StableSort(remove_renames, 1, TRUE)

\* a variant of the sort of insert_renames with reverse=True
SortInsertRenamesDescending(insert_renames) ==
    StableSort(insert_renames, 2, TRUE)

\* insert_renames.sort(key=lambda p: p[1])
SortInsertRenames(insert_renames) == StableSort(insert_renames, 2, FALSE)

\* TreeTransform._generate_remove_renames:
\* [exc, remove_renames, new_contents_path]
generate_remove_renames(ni, rm_ids, ncp, troot, temp_root) ==
    LET relative_new_contents == relpath(troot, make_subtree(temp_root, <<"n", "e", "w">>))
        relative_old_contents == relpath(troot, make_subtree(temp_root, <<"o", "l", "d">>))
        moved == SelectSeq(ni, LAMBDA item :
                     item[1] \notin DOMAIN ncp /\ item[1] \notin rm_ids)
        moved_ids == {moved[i][1] : i \in 1..Len(moved)}
        removed == SetToSeq(rm_ids)
        invalid == \E id \in moved_ids \cup rm_ids : tree_id_to_path(id).exc # None
        first == [i \in 1..Len(moved) |->
                    <<tree_id_to_path(moved[i][1]).val,
                      OsJoin(relative_new_contents, moved[i][1])>>]
        second == [i \in 1..Len(removed) |->
                     <<tree_id_to_path(removed[i]).val,
                       OsJoin(relative_old_contents, removed[i])>>]
    IN  IF invalid
        THEN [exc |-> ValueError, remove_renames |-> <<>>,
              new_contents_path |-> ncp]
        ELSE [exc |-> None,
              remove_renames |-> SortRemoveRenames(first \o second),
              new_contents_path |->
                  [id \in DOMAIN ncp \cup moved_ids |->
                      IF id \in moved_ids
                      THEN OsJoin(relative_new_contents, id)
                      ELSE ncp[id]]]

\* a variant of _generate_insert_renames that takes the name alone as the
\* new path
generate_insert_renames_by_name(ni, ncp) ==
    LET staged == SelectSeq(ni, LAMBDA item : item[1] \in DOMAIN ncp)
    IN  Ret(SortInsertRenames(
            [i \in 1..Len(staged) |-> <<ncp[staged[i][1]], staged[i][2][2]>>]))

\* TreeTransform._generate_insert_renames: [exc, val]
generate_insert_renames(ni, ncp) ==
    LET staged == SelectSeq(ni, LAMBDA item : item[1] \in DOMAIN ncp)
        final(i) == get_final_path(ni, staged[i][1], staged[i][2][1],
                                   staged[i][2][2], FinalPathDepth(ni))
        failing == {i \in 1..Len(staged) : final(i).exc # None}
    IN  IF failing # {}
        THEN Raise(final(CHOOSE i \in failing : \A j \in failing : i <= j).exc)
        ELSE Ret(SortInsertRenames(
                 [i \in 1..Len(staged) |-> <<ncp[staged[i][1]], final(i).val>>]))

\* TreeTransform.generate_renames while active, from the outcomes of the two
\* passes: [exc, val]
\* a variant of generate_renames that returns the insertions first
join_renames_insert_first(rem, ins) ==
    IF rem.exc # None THEN Raise(rem.exc)
    ELSE IF ins.exc # None THEN ins
    ELSE Ret(ins.val \o rem.remove_renames)

join_renames(rem, ins) ==
    IF rem.exc # None THEN Raise(rem.exc)
    ELSE IF ins.exc # None THEN ins
    ELSE Ret(rem.remove_renames \o ins.val)

\* TreeTransform.generate_renames, from the outcome rem of
\* _generate_remove_renames
generate_renames_after(ni, rem) ==
    join_renames(rem, generate_insert_renames(ni, rem.new_contents_path))

generate_renames(ni, rm_ids, ncp, troot, temp_root) ==
    generate_renames_after(ni,
        generate_remove_renames(ni, rm_ids, ncp, troot, temp_root))

(***************************************************************************)
(* The state.                                                              *)
(***************************************************************************)
VARIABLES
    tree_root,          \* tree.tree_root of the tree the transform is on
    fs,                 \* tree._file_store
    write,              \* TreeTransform.write
    active,             \* FALSE: the members hold InactiveTransform
    in_scope,           \* the caller is inside the with block
    name_info,          \* TreeTransform._name_info
    remove_ids,         \* TreeTransform._remove_ids
    new_contents_path,  \* TreeTransform._new_contents_path
    id_counter,         \* the next value of TreeTransform.id_counter
    temp_tree,          \* _temp_tree.tree_root, <<>> for None
    ops,                \* calls made so far
    scopes,             \* with blocks entered so far
    result,             \* the last call: [op, args, exc, val]
    entry_fs            \* the store when the with block was entered

vars == <<tree_root, fs, write, active, in_scope, name_info, remove_ids,
          new_contents_path, id_counter, temp_tree, ops, scopes, result,
          entry_fs>>

tt_vars == <<active, name_info, remove_ids, new_contents_path, id_counter,
             temp_tree>>

\* the members of the transform and the store, as one value
Members ==
    [active |-> active, name_info |-> name_info, remove_ids |-> remove_ids,
     new_contents_path |-> new_contents_path, id_counter |-> id_counter,
     temp_tree |-> temp_tree, fs |-> fs]

\* _new_contents.tree_root and _old_contents.tree_root
new_contents_root == make_subtree(temp_tree, <<"n", "e", "w">>)
old_contents_root == make_subtree(temp_tree, <<"o", "l", "d">>)

(***************************************************************************)
(* The inputs of the calls.                                                *)
(***************************************************************************)
Names == {<<"a">>, <<"b">>}
PathA == <<"a">>
PathAB == <<"a", "/", "b">>
PathC == <<"c">>
Hello == <<"h", "i">>
Bye == <<"b", "y", "e">>
\* the contents given to create_file and write_content
Contents == {<<Hello>>, <<Bye>>}
AcquirePaths == {Dot, PathA, PathAB, PathC}
IdA == EPrefix \o PathA
IdAB == EPrefix \o PathAB
IdC == EPrefix \o PathC
ExistingIds == {IdA, IdAB, IdC}
ParentIds == {RootId, IdA, IdAB}
\* the identifiers a caller can hold: of paths, of recorded entries, and the
\* one make_new_id has just returned
HeldIds ==
    ExistingIds \cup OKeys(name_info)
    \cup (IF result.op = "make_new_id" /\ result.exc = None
          THEN {result.val} ELSE {})
\* the eight random letters of mkdtemp
TempLetters ==
    {<<"x", "x", "x", "x", "x", "x", "x", "x">>,
     <<"y", "y", "y", "y", "y", "y", "y", "y">>}
\* mode None of the files create_file stages
NoneMode == -1

\* every path a store knows of
AllKeys(st) ==
    DOMAIN st.content \cup DOMAIN st.overlay \cup st.overlay_content
    \cup OKeys(st.renames)

\* StoreTree(): a memory store with the root directory
EmptyTreeContent == MemoryFileStore_mkdir(EmptyDict, <<>>, Mode700)

\* the tree the behaviours start from: directory a, directory a/b and file
\* c, made with mkdir and write_content on StoreTree()
InitialContent ==
    StoreTree_write_content(<<>>,
        StoreTree_mkdir(<<>>,
            StoreTree_mkdir(<<>>, NewMemoryFileStore(EmptyTreeContent),
                            PathA, Mode700),
            PathAB, Mode700),
        PathC, Mode600, <<Hello>>).fs.content

NoCall == [op |-> "none", args |-> <<>>, exc |-> None, val |-> <<>>]

\* TreeTransform(tree, write): write is the caller's choice, True by default
InitCommon ==
    /\ tree_root = <<>>
    /\ write \in BOOLEAN
    /\ active = FALSE
    /\ in_scope = FALSE
    /\ name_info = <<>>
    /\ remove_ids = {}
    /\ new_contents_path = EmptyDict
    /\ id_counter = 0
    /\ temp_tree = <<>>
    /\ ops = 0
    /\ scopes = 0
    /\ result = NoCall
    /\ entry_fs = NewMemoryFileStore(EmptyDict)

\* TreeTransform(StoreTree with the initial content)
Init ==
    /\ InitCommon
    /\ fs = NewMemoryFileStore(InitialContent)

\* TreeTransform(StoreTree(file_store=OverlayFileStore(read-only tree)))
InitOverlay ==
    /\ InitCommon
    /\ fs = NewOverlayFileStore(InitialContent)

(***************************************************************************)
(* The calls.                                                              *)
(***************************************************************************)
Call(op, args, exc, val) ==
    /\ result' = [op |-> op, args |-> args, exc |-> exc, val |-> val]
    /\ ops' = ops + 1

\* TreeTransform._mark_inactive
mark_inactive ==
    /\ active' = FALSE
    /\ name_info' = <<>>
    /\ temp_tree' = <<>>
    /\ new_contents_path' = EmptyDict
    /\ id_counter' = 0
    /\ remove_ids' = {}

\* a variant of __enter__ that keeps the members it finds
enter_keeping_members(letters) ==
    /\ ~in_scope
    /\ scopes < MaxScopes
    /\ LET made == StoreTree_mkdtemp(tree_root, fs, letters)
           temp_root == make_subtree(tree_root, made.name)
           fs1 == StoreTree_mkdir(temp_root, made.fs, <<"n", "e", "w">>, Mode700)
           fs2 == StoreTree_mkdir(temp_root, fs1, <<"o", "l", "d">>, Mode700)
       IN  /\ fs' = fs2
           /\ temp_tree' = temp_root
    /\ active' = TRUE
    /\ in_scope' = TRUE
    /\ scopes' = scopes + 1
    /\ entry_fs' = fs
    /\ result' = [op |-> "enter", args |-> <<letters>>, exc |-> None,
                  val |-> <<>>]
    /\ UNCHANGED <<tree_root, write, ops, name_info, new_contents_path,
                   remove_ids, id_counter>>

\* TreeTransform.__enter__, with the letters mkdtemp draws: the name may be
\* that of a directory an earlier scope left behind.  The with statement
\* calls it, so it alternates with __exit__
Enter(letters) ==
    /\ ~in_scope
    /\ scopes < MaxScopes
    /\ LET made == StoreTree_mkdtemp(tree_root, fs, letters)
           temp_root == make_subtree(tree_root, made.name)
           fs1 == StoreTree_mkdir(temp_root, made.fs, <<"n", "e", "w">>, Mode700)
           fs2 == StoreTree_mkdir(temp_root, fs1, <<"o", "l", "d">>, Mode700)
       IN  /\ fs' = fs2
           /\ temp_tree' = temp_root
    /\ name_info' = <<>>
    /\ new_contents_path' = EmptyDict
    /\ remove_ids' = {}
    /\ id_counter' = 0
    /\ active' = TRUE
    /\ in_scope' = TRUE
    /\ scopes' = scopes + 1
    /\ entry_fs' = fs
    /\ result' = [op |-> "enter", args |-> <<letters>>, exc |-> None,
                  val |-> <<>>]
    /\ UNCHANGED <<tree_root, write, ops>>

\* TreeTransform.acquire_existing_id
AcquireExistingId(path) ==
    /\ ops < MaxOps
    /\ \E r \in {acquire_existing_id(active, name_info, path)} :
          /\ name_info' = r.name_info
          /\ Call("acquire_existing_id", <<path>>, r.exc, r.val)
    /\ UNCHANGED <<tree_root, fs, write, active, in_scope, remove_ids,
                   new_contents_path, id_counter, temp_tree, scopes, entry_fs>>

\* TreeTransform.make_new_id
MakeNewId(name) ==
    /\ ops < MaxOps
    /\ IF active
       THEN /\ id_counter' = id_counter + 1
            /\ Call("make_new_id", <<name>>, None, new_id(id_counter, name))
       ELSE /\ id_counter' = id_counter
            /\ Call("make_new_id", <<name>>, NotPending, <<>>)
    /\ UNCHANGED <<tree_root, fs, write, active, in_scope, name_info,
                   remove_ids, new_contents_path, temp_tree, scopes, entry_fs>>

\* TreeTransform.set_name_info
SetNameInfo(file_id, parent_id, name) ==
    /\ ops < MaxOps
    /\ IF active
       THEN /\ name_info' = OSet(name_info, file_id, <<parent_id, name>>)
            /\ Call("set_name_info", <<file_id, parent_id, name>>, None, <<>>)
       ELSE /\ name_info' = name_info
            /\ Call("set_name_info", <<file_id, parent_id, name>>, NotPending,
                    <<>>)
    /\ UNCHANGED <<tree_root, fs, write, active, in_scope, remove_ids,
                   new_contents_path, id_counter, temp_tree, scopes, entry_fs>>

\* TreeTransform.create_file
CreateFile(name, parent_id, contents) ==
    /\ ops < MaxOps
    /\ IF active
       THEN \E file_id \in {new_id(id_counter, name)} :
            \E w \in {StoreTree_write_content(new_contents_root, fs, file_id,
                                               NoneMode, contents)} :
                /\ id_counter' = id_counter + 1
                /\ name_info' = OSet(name_info, file_id, <<parent_id, name>>)
                /\ fs' = w.fs
                /\ new_contents_path' =
                       IF w.exc # None THEN new_contents_path
                       ELSE DictSet(new_contents_path, file_id,
                                    full_path(new_contents_root, file_id))
                /\ Call("create_file", <<name, parent_id, contents>>, w.exc,
                        IF w.exc # None THEN <<>> ELSE file_id)
       ELSE /\ UNCHANGED <<id_counter, name_info, fs, new_contents_path>>
            /\ Call("create_file", <<name, parent_id, contents>>, NotPending,
                    <<>>)
    /\ UNCHANGED <<tree_root, write, active, in_scope, remove_ids, temp_tree,
                   scopes, entry_fs>>

\* TreeTransform.delete
Delete(file_id) ==
    /\ ops < MaxOps
    /\ IF active
       THEN /\ remove_ids' = remove_ids \cup {file_id}
            /\ Call("delete", <<file_id>>, None, <<>>)
       ELSE /\ remove_ids' = remove_ids
            /\ Call("delete", <<file_id>>, NotPending, <<>>)
    /\ UNCHANGED <<tree_root, fs, write, active, in_scope, name_info,
                   new_contents_path, id_counter, temp_tree, scopes, entry_fs>>

\* the outcome of generate_renames in the current state
CurrentPlan ==
    IF active
    THEN generate_renames(name_info, remove_ids, new_contents_path, tree_root,
                          temp_tree)
    ELSE Raise(NotPending)

\* TreeTransform.generate_renames
GenerateRenames ==
    /\ result.op # "generate_renames"
    /\ \E plan \in {CurrentPlan} :
          result' = [op |-> "generate_renames", args |-> <<>>,
                     exc |-> plan.exc, val |-> plan.val]
    /\ UNCHANGED <<tree_root, fs, write, in_scope, tt_vars, ops, scopes,
                   entry_fs>>

\* the end of __exit__ when apply_renames has ended as a and rmtree, when it
\* is reached, as rm: _mark_inactive is reached when neither raised
exit_after(a, rm, renames) ==
    IF a.exc # None
    THEN [exc |-> a.exc, fs |-> a.fs, plan |-> renames, inactive |-> FALSE]
    ELSE IF rm.exc # None
    THEN [exc |-> rm.exc, fs |-> rm.fs, plan |-> renames, inactive |-> FALSE]
    ELSE [exc |-> None, fs |-> rm.fs, plan |-> renames, inactive |-> TRUE]

\* __exit__ with plan the outcome of generate_renames, or no renames when
\* the block raised or write is off
exit_with_plan(plan) ==
    IF plan.exc # None
    THEN {[exc |-> plan.exc, fs |-> fs, plan |-> <<>>, inactive |-> FALSE]}
    ELSE {exit_after(a, StoreTree_rmtree(tree_root, a.fs, temp_tree), plan.val) :
             a \in apply_renames(tree_root, fs, plan.val)}

\* a variant of __exit__ that applies the plan whether the block raised or
\* not
exit_outcomes_always_apply(raised) ==
    exit_with_plan(IF write THEN CurrentPlan ELSE Ret(<<>>))

\* TreeTransform.__exit__: the set of outcomes [exc, fs, plan, inactive];
\* raised tells whether the block raised
exit_outcomes(raised) ==
    exit_with_plan(IF ~raised /\ write THEN CurrentPlan ELSE Ret(<<>>))

Exit(raised) ==
    /\ in_scope
    /\ \E out \in exit_outcomes(raised) :
          /\ fs' = out.fs
          /\ IF out.inactive THEN mark_inactive ELSE UNCHANGED tt_vars
          /\ result' = [op |-> "exit", args |-> <<raised>>, exc |-> out.exc,
                        val |-> out.plan,
                        recorded |-> <<Len(name_info), Cardinality(remove_ids),
                                       Cardinality(DOMAIN new_contents_path)>>]
    /\ in_scope' = FALSE
    /\ UNCHANGED <<tree_root, write, ops, scopes, entry_fs>>

\* the with block ends without an exception
ExitNormal == Exit(FALSE)

\* the with block ends by an exception raised inside it
ExitException == Exit(TRUE)

Next ==
    \/ \E letters \in TempLetters : Enter(letters)
    \/ \E path \in AcquirePaths : AcquireExistingId(path)
    \/ \E name \in Names : MakeNewId(name)
    \/ \E file_id \in HeldIds, parent_id \in ParentIds, name \in Names :
          SetNameInfo(file_id, parent_id, name)
    \/ \E name \in Names, parent_id \in ParentIds, contents \in Contents :
          CreateFile(name, parent_id, contents)
    \/ \E file_id \in HeldIds : Delete(file_id)
    \/ GenerateRenames
    \/ ExitNormal
    \/ ExitException

Spec == Init /\ [][Next]_vars

SpecOverlay == InitOverlay /\ [][Next]_vars

(***************************************************************************)
(* The calls on a tree that no transform is on: a StoreTree over a memory  *)
(* store or over an overlay store.                                         *)
(***************************************************************************)
TreePaths ==
    {PathA, PathAB, PathC, <<"c", "/", "d">>, <<"d">>, <<"d", "/", "e">>}

InitTree ==
    /\ InitCommon
    /\ fs \in {NewMemoryFileStore(InitialContent),
               NewOverlayFileStore(InitialContent)}

\* StoreTree.write_content
TreeWriteContent(path, file_mode, strings) ==
    /\ ops < MaxOps
    /\ \E w \in {StoreTree_write_content(tree_root, fs, path, file_mode,
                                          strings)} :
          /\ fs' = w.fs
          /\ Call("write_content", <<path, file_mode, strings>>, w.exc, <<>>)
    /\ UNCHANGED <<tree_root, write, in_scope, tt_vars, scopes, entry_fs>>

\* StoreTree.mkdir
TreeMkdir(path, file_mode) ==
    /\ ops < MaxOps
    /\ fs' = StoreTree_mkdir(tree_root, fs, path, file_mode)
    /\ Call("mkdir", <<path, file_mode>>, None, <<>>)
    /\ UNCHANGED <<tree_root, write, in_scope, tt_vars, scopes, entry_fs>>

\* StoreTree.rename
TreeRename(old_path, new_path) ==
    /\ ops < MaxOps
    /\ \E r \in StoreTree_rename(tree_root, fs, old_path, new_path) :
          /\ fs' = r.fs
          /\ Call("rename", <<old_path, new_path>>, r.exc, <<>>)
    /\ UNCHANGED <<tree_root, write, in_scope, tt_vars, scopes, entry_fs>>

\* StoreTree.rmtree
TreeRmtree(path) ==
    /\ ops < MaxOps
    /\ \E r \in {StoreTree_rmtree(tree_root, fs, path)} :
          /\ fs' = r.fs
          /\ Call("rmtree", <<path>>, r.exc, <<>>)
    /\ UNCHANGED <<tree_root, write, in_scope, tt_vars, scopes, entry_fs>>

NextTree ==
    \/ \E path \in TreePaths, strings \in Contents :
          TreeWriteContent(path, Mode600, strings)
    \/ \E path \in TreePaths : TreeMkdir(path, Mode700)
    \/ \E old_path \in TreePaths, new_path \in TreePaths :
          TreeRename(old_path, new_path)
    \/ \E path \in TreePaths : TreeRmtree(path)

SpecTree == InitTree /\ [][NextTree]_vars

(***************************************************************************)
(* The calls on a tree handle: the root tree or a temp subtree made by     *)
(* make_temp_tree, over a memory store, over an overlay store that holds   *)
(* every entry itself, or over an overlay store whose entries are all in   *)
(* its base.  The tree has directory a with file a/b, and file ab.         *)
(***************************************************************************)
PathAb == <<"a", "b">>
HandlePaths == {PathA, PathAB, PathAb, PathC}
\* a file mode other than that of the files of the initial trees
Mode644 == 420
HandleModes == {Mode600, Mode644}

\* mkdir('a', 0o700); write_content('a/b', 0o600, [b'hi']);
\* write_content('ab', 0o600, [b'bye']) on the handle rooted at root
Populate(root, st) ==
    StoreTree_write_content(root,
        StoreTree_write_content(root,
            StoreTree_mkdir(root, st, PathA, Mode700),
            PathAB, Mode600, <<Hello>>).fs,
        PathAb, Mode600, <<Bye>>).fs

\* the tree_root of tree.make_temp_tree() and the store after it
TempHandle(st) ==
    StoreTree_mkdtemp(<<>>, st, <<"x", "x", "x", "x", "x", "x", "x", "x">>)

\* the handles the behaviours start from: [tree_root, fs]
Handles ==
    {[tree_root |-> <<>>, fs |-> Populate(<<>>, st)] :
        st \in {NewMemoryFileStore(EmptyTreeContent),
                NewOverlayFileStore(EmptyTreeContent)}}
    \cup {[tree_root |-> TempHandle(st).name,
           fs |-> Populate(TempHandle(st).name, TempHandle(st).fs)] :
            st \in {NewMemoryFileStore(EmptyTreeContent),
                    NewOverlayFileStore(EmptyTreeContent)}}
    \cup {[tree_root |-> <<>>,
           fs |-> NewOverlayFileStore(
                    Populate(<<>>,
                             NewMemoryFileStore(EmptyTreeContent)).content)]}

InitHandle ==
    /\ \E h \in Handles : tree_root = h.tree_root /\ fs = h.fs
    /\ write = TRUE
    /\ active = FALSE
    /\ in_scope = FALSE
    /\ name_info = <<>>
    /\ remove_ids = {}
    /\ new_contents_path = EmptyDict
    /\ id_counter = 0
    /\ temp_tree = <<>>
    /\ ops = 0
    /\ scopes = 0
    /\ result = NoCall
    /\ entry_fs = NewMemoryFileStore(EmptyDict)

NextHandle ==
    \/ \E path \in HandlePaths, file_mode \in HandleModes,
          strings \in Contents :
          TreeWriteContent(path, file_mode, strings)
    \/ \E path \in HandlePaths : TreeMkdir(path, Mode700)
    \/ \E old_path \in HandlePaths, new_path \in HandlePaths :
          TreeRename(old_path, new_path)
    \/ \E path \in HandlePaths : TreeRmtree(path)

SpecHandle == InitHandle /\ [][NextHandle]_vars

(***************************************************************************)
(* apply_renames as the first call on a tree handle, with every list of up *)
(* to MaxRenames renames among the paths of the handle.  The handles are   *)
(* those above and an overlay handle on which rmtree('ab') was called.     *)
(***************************************************************************)
RenamePairs == HandlePaths \X HandlePaths
RenameLists == UNION {[1..n -> RenamePairs] : n \in 0..MaxRenames}

ApplyHandles ==
    Handles
    \cup {[tree_root |-> <<>>,
           fs |-> StoreTree_rmtree(<<>>,
                    NewOverlayFileStore(
                        Populate(<<>>,
                                 NewMemoryFileStore(EmptyTreeContent)).content),
                    PathAb).fs]}

InitApply ==
    /\ \E h \in ApplyHandles : tree_root = h.tree_root /\ fs = h.fs
    /\ write = TRUE
    /\ active = FALSE
    /\ in_scope = FALSE
    /\ name_info = <<>>
    /\ remove_ids = {}
    /\ new_contents_path = EmptyDict
    /\ id_counter = 0
    /\ temp_tree = <<>>
    /\ ops = 0
    /\ scopes = 0
    /\ result = NoCall
    /\ entry_fs = NewMemoryFileStore(EmptyDict)

\* BaseTree.apply_renames
TreeApplyRenames(renames) ==
    /\ ops = 0
    /\ \E r \in apply_renames(tree_root, fs, renames) :
          /\ fs' = r.fs
          /\ Call("apply_renames", <<renames>>, r.exc, <<>>)
    /\ UNCHANGED <<tree_root, write, in_scope, tt_vars, scopes, entry_fs>>

NextApply == \E renames \in RenameLists : TreeApplyRenames(renames)

SpecApply == InitApply /\ [][NextApply]_vars

(***************************************************************************)
(* The calls that record and query a transform inside one with block:     *)
(* acquire_existing_id, set_name_info, delete, create_file, get_name,      *)
(* get_parent, get_final_path and generate_renames.                        *)
(***************************************************************************)
\* TreeTransform.acquire_existing_id
PlanAcquireExistingId(path) ==
    /\ ops < MaxPlanOps
    /\ \E r \in {acquire_existing_id(active, name_info, path)} :
          /\ name_info' = r.name_info
          /\ Call("acquire_existing_id", <<path>>, r.exc, r.val)
    /\ UNCHANGED <<tree_root, fs, write, active, in_scope, remove_ids,
                   new_contents_path, id_counter, temp_tree, scopes, entry_fs>>

\* TreeTransform.set_name_info
PlanSetNameInfo(file_id, parent_id, name) ==
    /\ ops < MaxPlanOps
    /\ IF active
       THEN /\ name_info' = OSet(name_info, file_id, <<parent_id, name>>)
            /\ Call("set_name_info", <<file_id, parent_id, name>>, None, <<>>)
       ELSE /\ name_info' = name_info
            /\ Call("set_name_info", <<file_id, parent_id, name>>, NotPending,
                    <<>>)
    /\ UNCHANGED <<tree_root, fs, write, active, in_scope, remove_ids,
                   new_contents_path, id_counter, temp_tree, scopes, entry_fs>>

\* TreeTransform.delete
PlanDelete(file_id) ==
    /\ ops < MaxPlanOps
    /\ IF active
       THEN /\ remove_ids' = remove_ids \cup {file_id}
            /\ Call("delete", <<file_id>>, None, <<>>)
       ELSE /\ remove_ids' = remove_ids
            /\ Call("delete", <<file_id>>, NotPending, <<>>)
    /\ UNCHANGED <<tree_root, fs, write, active, in_scope, name_info,
                   new_contents_path, id_counter, temp_tree, scopes, entry_fs>>

\* TreeTransform.create_file
PlanCreateFile(name, parent_id, contents) ==
    /\ ops < MaxPlanOps
    /\ IF active
       THEN \E file_id \in {new_id(id_counter, name)} :
            \E w \in {StoreTree_write_content(new_contents_root, fs, file_id,
                                               NoneMode, contents)} :
                /\ id_counter' = id_counter + 1
                /\ name_info' = OSet(name_info, file_id, <<parent_id, name>>)
                /\ fs' = w.fs
                /\ new_contents_path' =
                       IF w.exc # None THEN new_contents_path
                       ELSE DictSet(new_contents_path, file_id,
                                    full_path(new_contents_root, file_id))
                /\ Call("create_file", <<name, parent_id, contents>>, w.exc,
                        IF w.exc # None THEN <<>> ELSE file_id)
       ELSE /\ UNCHANGED <<id_counter, name_info, fs, new_contents_path>>
            /\ Call("create_file", <<name, parent_id, contents>>, NotPending,
                    <<>>)
    /\ UNCHANGED <<tree_root, write, active, in_scope, remove_ids, temp_tree,
                   scopes, entry_fs>>

\* a call that reads the members and changes none: with the members
\* inactive the first access of _name_info raises NotPending
Query(op, file_id, outcome) ==
    /\ ops < MaxPlanOps
    /\ IF active
       THEN Call(op, <<file_id>>, outcome.exc, outcome.val)
       ELSE Call(op, <<file_id>>, NotPending, <<>>)
    /\ UNCHANGED <<tree_root, fs, write, in_scope, tt_vars, scopes, entry_fs>>

\* TreeTransform.get_name
GetName(file_id) == Query("get_name", file_id, get_name(name_info, file_id))

\* TreeTransform.get_parent
GetParent(file_id) ==
    Query("get_parent", file_id, get_parent(name_info, file_id))

\* TreeTransform.get_final_path(file_id)
GetFinalPath(file_id) ==
    Query("get_final_path", file_id,
          get_final_path(name_info, file_id, NoneArg, NoneArg,
                         FinalPathDepth(name_info)))

\* the identifiers the queries are made with
QueryIds == {RootId} \cup HeldIds

NextPlan ==
    \/ Enter(<<"x", "x", "x", "x", "x", "x", "x", "x">>)
    \/ \E path \in AcquirePaths : PlanAcquireExistingId(path)
    \/ \E file_id \in HeldIds, parent_id \in ParentIds, name \in Names :
          PlanSetNameInfo(file_id, parent_id, name)
    \/ \E file_id \in HeldIds : PlanDelete(file_id)
    \/ \E name \in Names, parent_id \in ParentIds :
          PlanCreateFile(name, parent_id, <<Hello>>)
    \/ \E file_id \in QueryIds : GetName(file_id)
    \/ \E file_id \in QueryIds : GetParent(file_id)
    \/ \E file_id \in QueryIds : GetFinalPath(file_id)
    \/ GenerateRenames

SpecPlan == Init /\ [][NextPlan]_vars

(***************************************************************************)
(* acquire_existing_id and set_name_info inside one with block, with paths *)
(* of up to three segments.                                                *)
(***************************************************************************)
PathABA == <<"a", "/", "b", "/", "a">>
ChainPaths == {PathA, PathAB, PathABA, PathC}

NextChain ==
    \/ Enter(<<"x", "x", "x", "x", "x", "x", "x", "x">>)
    \/ \E path \in ChainPaths : PlanAcquireExistingId(path)
    \/ \E file_id \in HeldIds, parent_id \in ParentIds, name \in Names :
          PlanSetNameInfo(file_id, parent_id, name)

SpecChain == Init /\ [][NextChain]_vars

(***************************************************************************)
(* A transform on a subtree handle: tree.make_subtree('s') of a StoreTree  *)
(* over a memory store, the subtree holding directory a, directory a/b and *)
(* file c.                                                                 *)
(***************************************************************************)
SubtreePath == <<"s">>

\* the tree_root of StoreTree().make_subtree('s')
SubtreeRoot == make_subtree(<<>>, SubtreePath)

\* the store after mkdir('s', 0o700) on the root tree and mkdir('a'),
\* mkdir('a/b') and write_content('c') on the subtree handle
SubtreeContent ==
    StoreTree_write_content(SubtreeRoot,
        StoreTree_mkdir(SubtreeRoot,
            StoreTree_mkdir(SubtreeRoot,
                StoreTree_mkdir(<<>>, NewMemoryFileStore(EmptyTreeContent),
                                SubtreePath, Mode700),
                PathA, Mode700),
            PathAB, Mode700),
        PathC, Mode600, <<Hello>>).fs.content

\* TreeTransform(StoreTree().make_subtree('s'))
InitSubtree ==
    /\ tree_root = SubtreeRoot
    /\ fs = NewMemoryFileStore(SubtreeContent)
    /\ write \in BOOLEAN
    /\ active = FALSE
    /\ in_scope = FALSE
    /\ name_info = <<>>
    /\ remove_ids = {}
    /\ new_contents_path = EmptyDict
    /\ id_counter = 0
    /\ temp_tree = <<>>
    /\ ops = 0
    /\ scopes = 0
    /\ result = NoCall
    /\ entry_fs = NewMemoryFileStore(EmptyDict)

SpecSubtree == InitSubtree /\ [][Next]_vars

(***************************************************************************)
(* Definitions shared by the properties.                                   *)
(***************************************************************************)
\* this step is __exit__ of the with block
ExitStep(raised) ==
    in_scope /\ ~in_scope' /\ result'.op = "exit" /\ result'.args = <<raised>>

\* get_final_path(file_id) in the current state
FinalPath(file_id) ==
    get_final_path(name_info, file_id, NoneArg, NoneArg,
                   FinalPathDepth(name_info))

\* the path an identifier of an existing entry encodes
OrigPath(file_id) == Suffix(file_id, 2)

\* an identifier of an entry that is in the tree, outside the staging subtree
IsExistingEntry(file_id) ==
    /\ Prefix(file_id, 2) = EPrefix
    /\ OrigPath(file_id) # Dot
    /\ OrigPath(file_id) \in DOMAIN fs.content
    /\ ~StartsWith(OrigPath(file_id), TempPrefix)

\* path p is a proper ancestor directory path of q
IsAncestor(p, q) == StartsWith(q, p \o <<Sep>>)

\* the paths of the staging subtrees in a memory content
StagingKeys(content) == {p \in DOMAIN content : StartsWith(p, TempPrefix)}

\* the entries of a memory content outside the staging subtrees
OutsideStaging(content) ==
    [p \in DOMAIN content \ StagingKeys(content) |-> content[p]]

(***************************************************************************)
(* C1 (as claimed).  For placements recorded on existing entries, with     *)
(* pairwise distinct final paths whose parents are directories of the      *)
(* final layout, a normal exit with write enabled raises nothing and every *)
(* entry's original content and mode are at get_final_path(id).            *)
(***************************************************************************)
C1_FinalDirs ==
    {<<>>}
    \cup {FinalPath(id).val : id \in {i \in OKeys(name_info) :
                                  fs.content[OrigPath(i)][2] = DIRECTORY}}
    \cup {p \in DOMAIN fs.content \ StagingKeys(fs.content) :
             /\ fs.content[p][2] = DIRECTORY
             /\ \A id \in OKeys(name_info) :
                   OrigPath(id) # p /\ ~IsAncestor(OrigPath(id), p)}

C1_Placements ==
    /\ write
    /\ name_info # <<>>
    /\ remove_ids = {}
    /\ DOMAIN new_contents_path = {}
    /\ \A id \in OKeys(name_info) :
          IsExistingEntry(id) /\ FinalPath(id).exc = None
    /\ \A id1, id2 \in OKeys(name_info) :
          id1 # id2 => FinalPath(id1).val # FinalPath(id2).val
    /\ \A id \in OKeys(name_info) :
          /\ Dirname(FinalPath(id).val) \in C1_FinalDirs
          /\ \A p \in DOMAIN fs.content :
                (\A other \in OKeys(name_info) : OrigPath(other) # p)
                => FinalPath(id).val # p

C1_AnyPlacementApplies ==
    [][(ExitStep(FALSE) /\ C1_Placements)
       => /\ result'.exc = None
          /\ \A id \in OKeys(name_info) :
                /\ FinalPath(id).val \in DOMAIN fs'.content
                /\ fs'.content[FinalPath(id).val] = fs.content[OrigPath(id)]
      ]_vars

(***************************************************************************)
(* C2 (as claimed).  With directory a and directory a/b, after recording   *)
(* a -> (a/b, 'a') and a/b -> (root, 'b'), the four renames apply without  *)
(* error and the former a is at b/a, the former a/b at b.                  *)
(***************************************************************************)
C2_Recorded ==
    /\ write
    /\ OKeys(name_info) = {IdA, IdAB}
    /\ OGet(name_info, IdA, <<>>) = <<IdAB, <<"a">>>>
    /\ OGet(name_info, IdAB, <<>>) = <<RootId, <<"b">>>>
    /\ remove_ids = {}
    /\ DOMAIN new_contents_path = {}

C2_CycleApplies ==
    [][(ExitStep(FALSE) /\ C2_Recorded)
       => /\ Len(result'.val) = 4
          /\ result'.exc = None
          /\ <<"b", "/", "a">> \in DOMAIN fs'.content
          /\ fs'.content[<<"b", "/", "a">>] = fs.content[PathA]
          /\ <<"b">> \in DOMAIN fs'.content
          /\ fs'.content[<<"b">>] = fs.content[PathAB]
      ]_vars

(***************************************************************************)
(* Definitions shared by the properties of C3 to C10.                      *)
(***************************************************************************)
\* the inbound and the outbound staging path of an identifier, relative to
\* a tree rooted at the store's root
StagedNew(file_id) == temp_tree \o <<"/", "n", "e", "w", "/">> \o file_id
StagedOld(file_id) == temp_tree \o <<"/", "o", "l", "d", "/">> \o file_id

\* what a caller can observe of the tree of store st at path p
Observe(st, p) ==
    [content |-> StoreTree_read_content(tree_root, st, p),
     mode |-> StoreTree_get_file_mode(tree_root, st, p),
     subpaths |-> StoreTree_iter_subpaths(tree_root, st, p)]

\* the trees of two stores read, and enumerate, the same at every path
\* either store knows of
SameTree(st1, st2) ==
    \A p \in AllKeys(st1) \cup AllKeys(st2) : Observe(st1, p) = Observe(st2, p)

\* the indices of the renames of a plan that have source src
RenamesFrom(plan, src) == {i \in 1..Len(plan) : plan[i][1] = src}

\* the indices of the renames of a plan that have destination dst
RenamesTo(plan, dst) == {i \in 1..Len(plan) : plan[i][2] = dst}

\* the calls of a transform that need it active
TransformCalls ==
    {"acquire_existing_id", "make_new_id", "set_name_info", "create_file",
     "delete", "generate_renames"}

(***************************************************************************)
(* C3 (as claimed).  With the top-level file c placed at (d, n), d the     *)
(* identifier of an existing directory without name-info, a normal exit    *)
(* with write enabled has the plan <<c -> inbound staging path of e-c,     *)
(* that path -> d/n>>, raises nothing, and afterwards d/n reads as c did   *)
(* and c is NoSuchFile; on every store a tree can be made over.            *)
(***************************************************************************)
C3_Placed(d, n) ==
    /\ active
    /\ write
    /\ name_info = <<<<IdC, <<d, n>>>>>>
    /\ remove_ids = {}
    /\ DOMAIN new_contents_path = {}
    /\ OrigPath(d) \in DOMAIN fs.content
    /\ fs.content[OrigPath(d)][2] = DIRECTORY
    /\ PathC \in DOMAIN fs.content
    /\ fs.content[PathC][2] # DIRECTORY

C3_MoveFile ==
    [][\A d \in {IdA, IdAB}, n \in Names :
          (ExitStep(FALSE) /\ C3_Placed(d, n))
          => /\ result'.exc = None
             /\ result'.val =
                   <<<<PathC, StagedNew(IdC)>>,
                     <<StagedNew(IdC), OsJoin(OrigPath(d), n)>>>>
             /\ StoreTree_read_content(tree_root, fs', OsJoin(OrigPath(d), n))
                   = StoreTree_read_content(tree_root, fs, PathC)
             /\ StoreTree_read_content(tree_root, fs', PathC).exc = NoSuchFile
      ]_vars

\* a normal exit has moved c under a/b
C3_Witness ==
    /\ result.op = "exit"
    /\ result.args = <<FALSE>>
    /\ result.exc = None
    /\ result.recorded = <<1, 0, 0>>
    /\ Len(result.val) = 2
    /\ result.val[1][1] = PathC
    /\ result.val[2][2] = <<"a", "/", "b", "/", "a">>
    /\ PathC \notin DOMAIN fs.content
    /\ fs.content[<<"a", "/", "b", "/", "a">>] = <<Mode600, Hello>>

(***************************************************************************)
(* C4 (as claimed).  When the with block is left by an exception, no       *)
(* rename is applied, nothing is left under the temporary directory of the *)
(* scope, the transform is inactive, and the tree reads and enumerates as  *)
(* it did when the scope was entered.                                      *)
(***************************************************************************)
C4_ExceptionDiscards ==
    [][ExitStep(TRUE)
       => /\ result'.exc = None
          /\ result'.val = <<>>
          /\ only_subpaths(temp_tree, AllKeys(fs')) = {}
          /\ ~active'
          /\ SameTree(fs', entry_fs)
          /\ fs'.content = entry_fs.content
      ]_vars

\* a scope that had recorded a placement and staged a file was left by an
\* exception
C4_Witness ==
    /\ result.op = "exit"
    /\ result.args = <<TRUE>>
    /\ result.recorded = <<2, 0, 1>>
    /\ ~active
    /\ fs = entry_fs

\* the same for the scopes whose temporary directory has a name that was
\* not in the tree when the scope was entered: mkdtemp does not look at the
\* tree, and an exit that raised leaves its temporary directory behind
C4_DiscardsUnderFreshName ==
    [][(ExitStep(TRUE) /\ temp_tree \notin AllKeys(entry_fs))
       => /\ result'.exc = None
          /\ result'.val = <<>>
          /\ only_subpaths(temp_tree, AllKeys(fs')) = {}
          /\ ~active'
          /\ SameTree(fs', entry_fs)
          /\ fs'.content = entry_fs.content
      ]_vars

(***************************************************************************)
(* C5 (as claimed).  Every exit, also one in which plan generation or a    *)
(* rename raises, leaves nothing under the temporary directory and leaves  *)
(* the transform inactive.                                                 *)
(***************************************************************************)
C5_ExitAlwaysCleans ==
    [][\A raised \in BOOLEAN :
          ExitStep(raised)
          => /\ ~active'
             /\ only_subpaths(temp_tree, AllKeys(fs')) = {}
      ]_vars

(***************************************************************************)
(* C6 (as claimed).  While the transform is inactive every call of         *)
(* acquire_existing_id, make_new_id, set_name_info, create_file, delete    *)
(* and generate_renames raises NotPending and changes nothing.             *)
(***************************************************************************)
C6_InactiveRaises ==
    [][(~active /\ result'.op \in TransformCalls)
       => /\ result'.exc = NotPending
          /\ Members' = Members
      ]_vars

(***************************************************************************)
(* C7 (as claimed).  A scope that is entered and left with no call in      *)
(* between leaves the tree reading and enumerating as before the entry,    *)
(* on the memory store and on the overlay store.                           *)
(***************************************************************************)
C7_NoOpSafe ==
    [][\A raised \in BOOLEAN :
          (ExitStep(raised) /\ result.op = "enter")
          => SameTree(fs', entry_fs)
      ]_vars

(***************************************************************************)
(* C8 (as claimed).  delete changes nothing in the tree; after a normal    *)
(* exit with write enabled of a scope that only deleted existing entries,  *)
(* at any depth, every deleted path is NoSuchFile, and the plan has for    *)
(* each deleted identifier one rename, from its path to its outbound       *)
(* staging path, and none from a staging path of the identifier.           *)
(***************************************************************************)
C8_OnlyDeleted ==
    /\ active
    /\ write
    /\ remove_ids # {}
    /\ \A id \in remove_ids : IsExistingEntry(id)
    /\ name_info = <<>>
    /\ DOMAIN new_contents_path = {}

C8_DeleteDeferredEffective ==
    [][/\ (active /\ result'.op = "delete") => fs' = fs
       /\ (ExitStep(FALSE) /\ C8_OnlyDeleted)
          => \A id \in remove_ids :
                /\ StoreTree_read_content(tree_root, fs', OrigPath(id)).exc
                      = NoSuchFile
                /\ Cardinality(RenamesFrom(result'.val, OrigPath(id))) = 1
                /\ RenamesFrom(result'.val, OrigPath(id))
                      = RenamesTo(result'.val, StagedOld(id))
                /\ RenamesFrom(result'.val, StagedNew(id)) = {}
                /\ RenamesFrom(result'.val, StagedOld(id)) = {}
      ]_vars

(***************************************************************************)
(* C9 (what holds).  create_file returns an identifier that had no         *)
(* name-info, records (parent_id, name) for it, stages the contents at the *)
(* inbound staging path of the identifier and leaves the tree outside the  *)
(* staging subtrees as it was.  A plan that is generated has exactly one   *)
(* rename from the staged path, to get_final_path(id), and none into a     *)
(* staging path of the identifier.  The contents are read at the final     *)
(* path after the normal exits with write enabled that raise nothing, when *)
(* no other identifier with name-info has that final path.                 *)
(***************************************************************************)
\* the file the identifier of new_contents_path was created with
C9_Staged(id) == StoreTree_read_content(tree_root, fs, new_contents_path[id])

C9_CreateStep ==
    (active /\ result'.op = "create_file")
    => /\ result'.exc = None
       /\ result'.val \notin OKeys(name_info)
       /\ result'.val \notin DOMAIN new_contents_path
       /\ OGet(name_info', result'.val, <<>>)
             = <<result'.args[2], result'.args[1]>>
       /\ new_contents_path'[result'.val] = StagedNew(result'.val)
       /\ StoreTree_read_content(tree_root, fs', StagedNew(result'.val))
             = Ret(<<JoinBytes(result'.args[3])>>)
       /\ OutsideStaging(fs'.content) = OutsideStaging(fs.content)

C9_PlanOf(plan, id) ==
    /\ Cardinality(RenamesFrom(plan, new_contents_path[id])) = 1
    /\ \A i \in RenamesFrom(plan, new_contents_path[id]) :
          plan[i][2] = FinalPath(id).val
    /\ RenamesTo(plan, StagedNew(id)) = {}
    /\ RenamesTo(plan, StagedOld(id)) = {}

C9_SoleAtFinalPath(id) ==
    \A other \in OKeys(name_info) \ {id} :
       FinalPath(other) # FinalPath(id)

C9_CreateFileAmended ==
    [][/\ C9_CreateStep
       /\ (ExitStep(FALSE) /\ write /\ active)
          => \A id \in DOMAIN new_contents_path :
                /\ CurrentPlan.exc = None => C9_PlanOf(result'.val, id)
                /\ (result'.exc = None /\ C9_SoleAtFinalPath(id))
                   => StoreTree_read_content(tree_root, fs',
                                             FinalPath(id).val) = C9_Staged(id)
      ]_vars

\* a normal exit has put the file created as a under a
C9_Witness ==
    /\ result.op = "exit"
    /\ result.args = <<FALSE>>
    /\ result.exc = None
    /\ result.recorded = <<1, 0, 1>>
    /\ Len(result.val) = 1
    /\ result.val[1][2] = <<"a", "/", "a">>
    /\ fs.content[<<"a", "/", "a">>] = <<NoneMode, Bye>>

(***************************************************************************)
(* C9 (as claimed).  The same, with the contents read at the final path    *)
(* after every normal exit with write enabled; stated for the scopes in    *)
(* which only created files have name-info and nothing is deleted, so that *)
(* the parent of every created file is a directory of the tree that the    *)
(* scope neither deletes nor places elsewhere.                             *)
(***************************************************************************)
C9_OnlyCreated ==
    /\ OKeys(name_info) = DOMAIN new_contents_path
    /\ remove_ids = {}
    /\ \A id \in OKeys(name_info) :
          \E parent_id \in {OGet(name_info, id, <<>>)[1]} :
             \/ parent_id = RootId
             \/ /\ OrigPath(parent_id) \in DOMAIN fs.content
                /\ fs.content[OrigPath(parent_id)][2] = DIRECTORY

C9_CreateFileAsClaimed ==
    [][/\ C9_CreateStep
       /\ (ExitStep(FALSE) /\ write /\ active /\ C9_OnlyCreated)
          => \A id \in DOMAIN new_contents_path :
                /\ result'.exc = None
                /\ C9_PlanOf(result'.val, id)
                /\ StoreTree_read_content(tree_root, fs', FinalPath(id).val)
                      = C9_Staged(id)
      ]_vars

(***************************************************************************)
(* C10.  write_content(path) and rename(old, path) raise NoParent when the *)
(* parent of path is not in the store and ParentNotDir when it is a file,  *)
(* and then leave the store as it was, on the memory store and on the      *)
(* overlay store.                                                          *)
(***************************************************************************)
\* the destination of the call of the step
C10_Destination ==
    full_path(tree_root,
              result'.args[IF result'.op = "rename" THEN 2 ELSE 1])

\* path p does not exist in the store
C10_Missing(st, p) == Store_get_file_mode(st, p).exc = NoSuchFile

\* path p is a file of the store
C10_IsFile(st, p) ==
    /\ Store_get_file_mode(st, p).exc = None
    /\ Store_read_content(st, p).exc = None

C10_ParentChecked ==
    [][(result'.op \in {"write_content", "rename"})
       => /\ C10_Missing(fs, Dirname(C10_Destination))
             => (result'.exc = NoParent /\ fs' = fs)
          /\ C10_IsFile(fs, Dirname(C10_Destination))
             => (result'.exc = ParentNotDir /\ fs' = fs)
      ]_vars

\* a rename on the overlay store whose destination is under a file
C10_Witness ==
    /\ fs.kind = OVERLAY
    /\ result.op = "rename"
    /\ result.args = <<PathA, <<"c", "/", "d">>>>
    /\ result.exc = ParentNotDir
    /\ ops = 1

(***************************************************************************)
(* Definitions shared by the properties of C11 to C14.                     *)
(***************************************************************************)
\* this step is a call rename(old_path, new_path) of the tree that returned
RenameStep(old_path, new_path) ==
    /\ ops' = ops + 1
    /\ result'.op = "rename"
    /\ result'.args = <<old_path, new_path>>
    /\ result'.exc = None

\* path p is an entry of the tree of store st
Exists(st, p) == StoreTree_get_file_mode(tree_root, st, p).exc = None

(***************************************************************************)
(* C11 (as claimed).  On the memory store and on the overlay store, after  *)
(* rename(a, b) of an entry a to another path b returned, read_content(b)  *)
(* gives what read_content(a) gave before, get_file_mode(b) gives the mode *)
(* a had, and read_content(a) raises NoSuchFile.                           *)
(***************************************************************************)
C11_RenameShifts ==
    [][\A a, b \in TreePaths :
          (RenameStep(a, b) /\ a # b /\ Exists(fs, a))
          => /\ StoreTree_read_content(tree_root, fs', b)
                   = StoreTree_read_content(tree_root, fs, a)
             /\ StoreTree_get_file_mode(tree_root, fs', b)
                   = StoreTree_get_file_mode(tree_root, fs, a)
             /\ StoreTree_read_content(tree_root, fs', a).exc = NoSuchFile
      ]_vars

(***************************************************************************)
(* C12 (as claimed).  On the memory store, after rename(old, new) of a     *)
(* directory old to a path outside it returned, every entry old/x that     *)
(* was below old is at new/x with its content and mode, and old/x is no    *)
(* longer an entry.                                                        *)
(***************************************************************************)
\* the entries of the memory store below directory path old_path
C12_Descendants(old_path) ==
    {p \in DOMAIN fs.content : IsAncestor(old_path, p)}

\* the path new/x of the entry old/x
C12_Moved(old_path, new_path, p) == new_path \o Suffix(p, Len(old_path))

C12_RenameMovesSubtree ==
    [][\A old_path, new_path \in TreePaths :
          (/\ RenameStep(old_path, new_path)
           /\ fs.kind = MEMORY
           /\ StoreTree_read_content(tree_root, fs, old_path).exc = IsDirectory
           /\ old_path # new_path
           /\ ~IsAncestor(old_path, new_path))
          => \A p \in C12_Descendants(old_path) :
                /\ StoreTree_read_content(tree_root, fs',
                                          C12_Moved(old_path, new_path, p))
                      = StoreTree_read_content(tree_root, fs, p)
                /\ StoreTree_get_file_mode(tree_root, fs',
                                           C12_Moved(old_path, new_path, p))
                      = StoreTree_get_file_mode(tree_root, fs, p)
                /\ ~Exists(fs', p)
      ]_vars

(***************************************************************************)
(* C13.  After rmtree(p) returned, reading p and every entry that was      *)
(* below p raises NoSuchFile, and every other entry of the store reads as  *)
(* before with the mode it had: on the memory store and on the overlay     *)
(* store, on the root tree and on a temp subtree, with the entry ab beside *)
(* the directory a.                                                        *)
(***************************************************************************)
\* this step is a call rmtree(path) of the tree that returned
RmtreeStep(path) ==
    /\ ops' = ops + 1
    /\ result'.op = "rmtree"
    /\ result'.args = <<path>>
    /\ result'.exc = None

\* full path p is an entry of store st
StoreExists(st, p) == Store_get_file_mode(st, p).exc = None

\* the full paths either store of the step knows of
C13_Known == AllKeys(fs) \cup AllKeys(fs')

\* full path q is sub_path or below it by path segments
C13_InSubtree(sub_path, q) == q = sub_path \/ IsAncestor(sub_path, q)

C13_Removed(sub_path) ==
    /\ Store_read_content(fs', sub_path).exc = NoSuchFile
    /\ \A q \in C13_Known :
          (StoreExists(fs, q) /\ IsAncestor(sub_path, q))
          => Store_read_content(fs', q).exc = NoSuchFile

C13_OthersKept(sub_path) ==
    \A q \in C13_Known :
       (StoreExists(fs, q) /\ ~C13_InSubtree(sub_path, q))
       => /\ Store_read_content(fs', q) = Store_read_content(fs, q)
          /\ Store_get_file_mode(fs', q) = Store_get_file_mode(fs, q)

C13_RmtreeExact ==
    [][\A p \in HandlePaths :
          RmtreeStep(p)
          => /\ C13_Removed(full_path(tree_root, p))
             /\ C13_OthersKept(full_path(tree_root, p))
      ]_vars

(***************************************************************************)
(* C14 (as claimed).  On the overlay store: after write_content(p, mode,   *)
(* strings) returned, read_content(p) gives the written content and        *)
(* get_file_mode(p) the written mode, whatever the base holds at p; after  *)
(* rename(a, b) of an entry a of the base that the overlay holds no entry  *)
(* and no rename for, read_content(b) gives what the base reads at a; and  *)
(* after                                                                   *)
(* a following rename(b, c), read_content(c) gives what the base reads at  *)
(* a.                                                                      *)
(***************************************************************************)
\* this step is a call write_content(path, file_mode, strings) of the tree
\* that returned
WriteStep(path, file_mode, strings) ==
    /\ ops' = ops + 1
    /\ result'.op = "write_content"
    /\ result'.args = <<path, file_mode, strings>>
    /\ result'.exc = None

\* the overlay has neither an entry nor a rename for full path p
C14_BaseOnly(st, p) == p \notin st.overlay_content /\ p \notin OKeys(st.renames)

C14_WriteShadows ==
    \A p \in HandlePaths, file_mode \in HandleModes, strings \in Contents :
       WriteStep(p, file_mode, strings)
       => /\ StoreTree_read_content(tree_root, fs', p)
                = Ret(<<JoinBytes(strings)>>)
          /\ StoreTree_get_file_mode(tree_root, fs', p) = Ret(file_mode)

C14_RenameReadsBase ==
    \A a, b \in HandlePaths :
       (/\ RenameStep(a, b)
        /\ C14_BaseOnly(fs, full_path(tree_root, a))
        /\ Base_get_file_mode(fs.content, full_path(tree_root, a)).exc = None)
       => StoreTree_read_content(tree_root, fs', b)
             = Base_read_content(fs.content, full_path(tree_root, a))

C14_SecondRenameReadsBase ==
    \A a, b, c \in HandlePaths :
       (/\ ops = 1
        /\ result.op = "rename"
        /\ result.args = <<a, b>>
        /\ result.exc = None
        /\ fs.overlay_content = {}
        /\ RenameStep(b, c))
       => StoreTree_read_content(tree_root, fs', c)
             = Base_read_content(fs.content, full_path(tree_root, a))

C14_ShadowPrecedence ==
    [][fs.kind = OVERLAY
       => /\ C14_WriteShadows
          /\ C14_RenameReadsBase
          /\ C14_SecondRenameReadsBase
      ]_vars

(***************************************************************************)
(* C15.  Inside the with block get_name(id) and get_parent(id) return the  *)
(* recorded name and parent when id has name-info; without name-info they  *)
(* return the basename and the identifier of the parent directory of the   *)
(* path of id (e-a: 'a' under the root, e-a/b: 'b' under e-a, e-c: 'c'     *)
(* under the root) and raise KeyError for the root identifier; and a       *)
(* query that follows set_name_info(id, p, n) returns p, respectively n.   *)
(***************************************************************************)
\* this step is the query op of file_id, made inside the with block
QueryStep(op, file_id) ==
    /\ active
    /\ ops' = ops + 1
    /\ result'.op = op
    /\ result'.args = <<file_id>>

\* the parent and the name the path of an identifier stands for
C15_Derived(file_id) ==
    IF file_id = IdA THEN <<RootId, <<"a">>>>
    ELSE IF file_id = IdAB THEN <<IdA, <<"b">>>>
    ELSE <<RootId, <<"c">>>>

\* the outcome the claim gives for the parent (k = 1) or the name (k = 2)
C15_Expected(file_id, k) ==
    IF file_id \in OKeys(name_info)
    THEN Ret(OGet(name_info, file_id, <<>>)[k])
    ELSE IF file_id = RootId THEN Raise(KeyError)
    ELSE Ret(C15_Derived(file_id)[k])

C15_AfterSet(file_id, k) ==
    (/\ result.op = "set_name_info"
     /\ result.exc = None
     /\ result.args[1] = file_id)
    => (result'.exc = None /\ result'.val = result.args[k + 1])

C15_NameAndParent ==
    [][\A file_id \in ExistingIds \cup {RootId} \cup OKeys(name_info) :
          /\ QueryStep("get_parent", file_id)
             => /\ [exc |-> result'.exc, val |-> result'.val]
                      = C15_Expected(file_id, 1)
                /\ C15_AfterSet(file_id, 1)
          /\ QueryStep("get_name", file_id)
             => /\ [exc |-> result'.exc, val |-> result'.val]
                      = C15_Expected(file_id, 2)
                /\ C15_AfterSet(file_id, 2)
      ]_vars

\* get_name of e-c after acquire_existing_id('c') and
\* set_name_info('e-c', 'e-a', 'b')
C15_Witness ==
    /\ active
    /\ ops = 3
    /\ result.op = "get_name"
    /\ result.args = <<IdC>>
    /\ result.exc = None
    /\ result.val = <<"b">>
    /\ name_info = <<<<IdC, <<IdA, <<"b">>>>>>>>

(***************************************************************************)
(* C16.  Inside the with block acquire_existing_id(path) returns the       *)
(* identifier e-path, and when that identifier has name-info already, from *)
(* an earlier acquisition or from a set_name_info after it, the call       *)
(* leaves the name-info map as it is.                                      *)
(***************************************************************************)
\* this step is acquire_existing_id(path), made inside the with block
AcquireStep(path) ==
    /\ active
    /\ ops' = ops + 1
    /\ result'.op = "acquire_existing_id"
    /\ result'.args = <<path>>

C16_AcquireIdempotent ==
    [][\A path \in {PathA, PathAB, PathC} :
          AcquireStep(path)
          => /\ result'.exc = None
             /\ result'.val = EPrefix \o path
             /\ EPrefix \o path \in OKeys(name_info)
                => name_info' = name_info
      ]_vars

\* acquire_existing_id('c') after acquire_existing_id('c') and
\* set_name_info('e-c', 'e-a', 'b')
C16_Witness ==
    /\ active
    /\ ops = 3
    /\ result.op = "acquire_existing_id"
    /\ result.args = <<PathC>>
    /\ result.val = IdC
    /\ name_info = <<<<IdC, <<IdA, <<"b">>>>>>>>

(***************************************************************************)
(* Definitions shared by the properties of C17 and C18.                    *)
(***************************************************************************)
\* this step is generate_renames, made inside the with block, that returned
PlanStep ==
    /\ active
    /\ result'.op = "generate_renames"
    /\ result'.exc = None

\* path p is in the staging subtree of the transform
InStaging(p) == StartsWith(p, temp_tree \o <<Sep>>)

\* the indices of the relocations of a plan: the renames into the staging
\* subtree
Relocations(plan) == {i \in 1..Len(plan) : InStaging(plan[i][2])}

\* the indices of the insertions of a plan: the renames out of the staging
\* subtree
Insertions(plan) == {i \in 1..Len(plan) : InStaging(plan[i][1])}

(***************************************************************************)
(* C17.  A plan that generate_renames returns consists of relocations into *)
(* the staging subtree followed by insertions out of it; a relocation of a *)
(* source path comes before the relocation of every ancestor of that path; *)
(* an insertion at a final path comes before the insertion at every path   *)
(* below it; and an identifier of an existing entry that has no name-info  *)
(* and is not deleted is in no rename of the plan.                         *)
(***************************************************************************)
C17_PhaseOrder(plan) ==
    /\ Relocations(plan) \cup Insertions(plan) = 1..Len(plan)
    /\ \A i \in Relocations(plan), j \in Insertions(plan) : i < j

C17_DescendantsRelocatedFirst(plan) ==
    \A i, j \in Relocations(plan) :
       IsAncestor(plan[j][1], plan[i][1]) => i < j

C17_AncestorsInsertedFirst(plan) ==
    \A i, j \in Insertions(plan) :
       IsAncestor(plan[j][2], plan[i][2]) => j < i

C17_UntouchedAbsent(plan) ==
    \A id \in ExistingIds \ (OKeys(name_info) \cup remove_ids) :
       /\ RenamesFrom(plan, OrigPath(id)) = {}
       /\ RenamesFrom(plan, StagedNew(id)) = {}
       /\ RenamesTo(plan, StagedNew(id)) = {}
       /\ RenamesTo(plan, StagedOld(id)) = {}

C17_PlanRespectsContainment ==
    [][PlanStep
       => /\ C17_PhaseOrder(result'.val)
          /\ C17_DescendantsRelocatedFirst(result'.val)
          /\ C17_AncestorsInsertedFirst(result'.val)
          /\ C17_UntouchedAbsent(result'.val)
      ]_vars

\* the plan after acquire_existing_id('a/b'): a/b and a are relocated in
\* this order, a and a/b inserted in this order, c is in no rename
C17_Witness ==
    /\ active
    /\ result.op = "generate_renames"
    /\ result.exc = None
    /\ OKeys(name_info) = {IdA, IdAB}
    /\ remove_ids = {}
    /\ Len(result.val) = 4
    /\ result.val[1] = <<PathAB, StagedNew(IdAB)>>
    /\ result.val[2] = <<PathA, StagedNew(IdA)>>
    /\ result.val[3] = <<StagedNew(IdA), PathA>>
    /\ result.val[4] = <<StagedNew(IdAB), PathAB>>

(***************************************************************************)
(* C18 (what the code orders by).  In a plan that generate_renames returns *)
(* the relocations are in descending order of the original path as a       *)
(* string, and the insertions in ascending order of the final path as a    *)
(* string.                                                                 *)
(***************************************************************************)
C18_RelocationsByString(plan) ==
    \A i, j \in Relocations(plan) :
       i < j => ~StrLess(plan[i][1], plan[j][1])

C18_InsertionsByString(plan) ==
    \A i, j \in Insertions(plan) :
       i < j => ~StrLess(plan[j][2], plan[i][2])

C18_OrderedByPathString ==
    [][PlanStep
       => /\ C18_RelocationsByString(result'.val)
          /\ C18_InsertionsByString(result'.val)
      ]_vars

\* the plan after acquire_existing_id('c') and acquire_existing_id('a/b'):
\* c is relocated before a/b and inserted after it
C18_Witness ==
    /\ active
    /\ result.op = "generate_renames"
    /\ result.exc = None
    /\ Len(result.val) = 6
    /\ result.val[1][1] = PathC
    /\ result.val[2][1] = PathAB
    /\ result.val[3][1] = PathA
    /\ result.val[4][2] = PathA
    /\ result.val[5][2] = PathAB
    /\ result.val[6][2] = PathC

(***************************************************************************)
(* C18 (as claimed).  In a plan that generate_renames returns the          *)
(* relocations are in descending order of the number of segments of the    *)
(* original path, and the insertions in ascending order of the number of   *)
(* segments of the final path.                                             *)
(***************************************************************************)
\* the number of segments of a path
C18_Depth(p) == Cardinality({i \in 1..Len(p) : p[i] = Sep}) + 1

C18_OrderedByDepth ==
    [][PlanStep
       => /\ \A i, j \in Relocations(result'.val) :
                i < j => C18_Depth(result'.val[i][1])
                            >= C18_Depth(result'.val[j][1])
          /\ \A i, j \in Insertions(result'.val) :
                i < j => C18_Depth(result'.val[i][2])
                            =< C18_Depth(result'.val[j][2])
      ]_vars

(***************************************************************************)
(* C19 (as claimed).  When apply_renames(renames) raises, some k-th rename *)
(* raises that exception on the store the first k - 1 renames left, each   *)
(* of them having returned, and the store is that store: the first k - 1   *)
(* renames have taken effect and nothing else has.                         *)
(***************************************************************************)
\* this step is a call of apply_renames
ApplyStep ==
    /\ ops' = ops + 1
    /\ result'.op = "apply_renames"

\* the stores that the first k renames of a list can leave when each of
\* them returns
RECURSIVE C19_After(_, _, _)
C19_After(st, renames, k) ==
    IF k = 0 THEN {st}
    ELSE UNION {{r.fs : r \in {x \in StoreTree_rename(tree_root, s,
                                        renames[k][1], renames[k][2]) :
                                  x.exc = None}} :
                   s \in C19_After(st, renames, k - 1)}

\* the k-th rename raises exc on the store s
C19_Raises(s, renames, k, exc) ==
    \E r \in StoreTree_rename(tree_root, s, renames[k][1], renames[k][2]) :
       r.exc = exc

C19_ExactlyFirstRenames ==
    [][(ApplyStep /\ result'.exc # None)
       => \E k \in 1..Len(result'.args[1]) :
             /\ fs' \in C19_After(fs, result'.args[1], k - 1)
             /\ C19_Raises(fs', result'.args[1], k, result'.exc)
      ]_vars

\* the part of C19 that holds on every store: apply_renames that returns
\* leaves the store the renames leave in list order, and one that raises
\* leaves the store as the first rename that raised left it
C19_UpToFailingRename ==
    [][ApplyStep
       => IF result'.exc = None
          THEN fs' \in C19_After(fs, result'.args[1], Len(result'.args[1]))
          ELSE \E k \in 1..Len(result'.args[1]) :
                  \E s \in C19_After(fs, result'.args[1], k - 1) :
                     \E r \in StoreTree_rename(tree_root, s,
                                               result'.args[1][k][1],
                                               result'.args[1][k][2]) :
                        r.exc = result'.exc /\ fs' = r.fs
      ]_vars

(***************************************************************************)
(* C20 (as claimed).  Inside the with block, whatever name-info            *)
(* set_name_info has recorded, get_final_path ends with a path, and        *)
(* generate_renames does not end by the recursion of get_final_path        *)
(* running out of frames.                                                  *)
(***************************************************************************)
C20_Terminates ==
    [][/\ \A file_id \in ExistingIds \cup {RootId} \cup OKeys(name_info) :
             QueryStep("get_final_path", file_id) => result'.exc = None
       /\ (active /\ result'.op = "generate_renames")
             => result'.exc # RecursionError
      ]_vars

(***************************************************************************)
(* C21 (amended).  acquire_existing_id(p) of a non-root path p, made       *)
(* inside the with block, goes from p up through its ancestors and stops   *)
(* at the first of them whose identifier has name-info already, or at the  *)
(* root.  Every path before that one gets the entry (identifier of its     *)
(* parent directory, basename); it and the ancestors above it are left as  *)
(* they were, with or without name-info, and nothing else is recorded.     *)
(***************************************************************************)
\* p and its ancestors other than the root
C21_Chain(p) == {p} \cup {Prefix(p, i - 1) : i \in {k \in 1..Len(p) : p[k] = Sep}}

\* the call for p reaches q: neither q nor a path of the chain below q has
\* name-info before the call
C21_Recorded(p, q) ==
    \A r \in C21_Chain(p) :
       (r = q \/ IsAncestor(q, r)) => EPrefix \o r \notin OKeys(name_info)

\* the entries the call for p adds
C21_Added(p) == {EPrefix \o q : q \in {r \in C21_Chain(p) : C21_Recorded(p, r)}}

C21_ChainUpToRegistered ==
    [][\A p \in ChainPaths :
          AcquireStep(p)
          => /\ result'.exc = None
             /\ OKeys(name_info') = OKeys(name_info) \cup C21_Added(p)
             /\ \A id \in OKeys(name_info) :
                   OGet(name_info', id, <<>>) = OGet(name_info, id, <<>>)
             /\ \A q \in C21_Chain(p) :
                   C21_Recorded(p, q)
                   => OGet(name_info', EPrefix \o q, <<>>)
                         = <<tree_path_to_id(Dirname(q)).val, Basename(q)>>
      ]_vars

\* acquire_existing_id('a/b/a') after set_name_info('e-a/b', 'e-.', 'b'):
\* a/b/a is recorded under e-a/b, and e-a has no name-info
C21_Witness ==
    /\ active
    /\ ops = 2
    /\ result.op = "acquire_existing_id"
    /\ result.args = <<PathABA>>
    /\ result.exc = None
    /\ name_info = <<<<IdAB, <<RootId, <<"b">>>>>>,
                     <<EPrefix \o PathABA, <<IdAB, <<"a">>>>>>>>
    /\ IdA \notin OKeys(name_info)

(***************************************************************************)
(* C21 (as claimed).  After acquire_existing_id(p) of a non-root path p    *)
(* returned, every ancestor of p other than the root has name-info, also   *)
(* when the identifier of p had name-info from set_name_info before.       *)
(***************************************************************************)
C21_AncestorsRegistered ==
    [][\A p \in ChainPaths :
          (AcquireStep(p) /\ result'.exc = None)
          => \A q \in C21_Chain(p) \ {p} : EPrefix \o q \in OKeys(name_info')
      ]_vars

(***************************************************************************)
(* C22.  Every entry into the with block, the first and one that follows a *)
(* scope left normally, by an exception or by an exit that raised, leaves  *)
(* the name-info map, the pending-deletion set and the staged-content map  *)
(* empty and the counter at 0: a plan generated right after the entry is   *)
(* empty, the first identifier minted after it is n-0-<name> and the one   *)
(* minted next n-1-<name>.                                                 *)
(***************************************************************************)
\* this step is the call op, which returned
C22_Returned(op) == result'.op = op /\ result'.exc = None /\ ops' = ops + 1

\* this step mints an identifier
C22_Mints == C22_Returned("make_new_id") \/ C22_Returned("create_file")

C22_NoStateAcrossScopes ==
    [][/\ (~in_scope /\ in_scope')
          => /\ active'
             /\ name_info' = <<>>
             /\ remove_ids' = {}
             /\ new_contents_path' = EmptyDict
             /\ id_counter' = 0
       /\ (result.op = "enter" /\ result'.op = "generate_renames")
          => (result'.exc = None /\ result'.val = <<>>)
       /\ (result.op = "enter" /\ ExitStep(FALSE))
          => (result'.exc = None /\ result'.val = <<>>)
       /\ (result.op = "enter" /\ C22_Mints)
          => result'.val = new_id(0, result'.args[1])
       /\ (/\ result.op \in {"make_new_id", "create_file"}
           /\ result.exc = None
           /\ result.val = new_id(0, result.args[1])
           /\ C22_Mints)
          => result'.val = new_id(1, result'.args[1])
      ]_vars

\* create_file as the first call of a second scope, after a first scope
\* whose one call changed the tree at its exit: it returns n-0-a
C22_Witness ==
    /\ scopes = 2
    /\ in_scope
    /\ ops = 2
    /\ result.op = "create_file"
    /\ result.val = new_id(0, <<"a">>)
    /\ OutsideStaging(entry_fs.content) # InitialContent
    /\ Len(name_info) = 1
    /\ id_counter = 1

(***************************************************************************)
(* C23 (as claimed).  On the overlay store, once write_content(p) or       *)
(* mkdir(p) or rename(old, p) from another path old returned, no read of p *)
(* is answered from the entry the base holds at p, right after the call    *)
(* and after whatever call of the tree follows it.                         *)
(***************************************************************************)
\* the call the step makes has written, created or renamed into path p
C23_Shadows(call, p) ==
    /\ call.exc = None
    /\ \/ call.op \in {"write_content", "mkdir"} /\ call.args[1] = p
       \/ call.op = "rename" /\ call.args[2] = p /\ call.args[1] # p

\* read_content and get_file_mode of the full path p are answered from the
\* entry of the base at that same path
C23_FromBaseEntryAt(st, p) ==
    /\ p \notin st.overlay_content
    /\ OverlayFileStore_base_path(st, p) = p
    /\ Base_get_file_mode(st.content, p).exc = None

C23_ShadowingPermanent ==
    [][(fs.kind = OVERLAY /\ ops' = ops + 1)
       => \A p \in HandlePaths :
             (C23_Shadows(result', p) \/ C23_Shadows(result, p))
             => ~C23_FromBaseEntryAt(fs', full_path(tree_root, p))
      ]_vars

\* the part of C23 that holds: the same when the call that follows is not
\* a rename
C23_ShadowingKeptWithoutRename ==
    [][(fs.kind = OVERLAY /\ ops' = ops + 1 /\ result'.op # "rename")
       => \A p \in HandlePaths :
             (C23_Shadows(result', p) \/ C23_Shadows(result, p))
             => ~C23_FromBaseEntryAt(fs', full_path(tree_root, p))
      ]_vars

(***************************************************************************)
(* C24 (as claimed).  After rename(old, new) returned on the overlay       *)
(* store, every overlay entry that is neither old, nor below old by path   *)
(* segments, nor at a path the rename moves an entry to, is read at its    *)
(* path with the content and the mode it had: so is the entry ab when a is *)
(* renamed.                                                                *)
(***************************************************************************)
\* the overlay entries of the store at old_path and below it
C24_Subtree(st, old_path) ==
    {key \in DOMAIN st.overlay : C13_InSubtree(old_path, key)}

\* the paths the rename moves the entries of the subtree to
C24_Destinations(st, old_path, new_path) ==
    {new_path} \cup {C12_Moved(old_path, new_path, key) :
                        key \in C24_Subtree(st, old_path)}

C24_SiblingsKept(old_path, new_path) ==
    \A key \in DOMAIN fs.overlay :
       (/\ key \notin C24_Subtree(fs, old_path)
        /\ key \notin C24_Destinations(fs, old_path, new_path))
       => /\ key \in DOMAIN fs'.overlay
          /\ Store_read_content(fs', key) = Store_read_content(fs, key)
          /\ Store_get_file_mode(fs', key) = Store_get_file_mode(fs, key)

C24_RenameBySegments ==
    [][\A old_path, new_path \in HandlePaths :
          (fs.kind = OVERLAY /\ RenameStep(old_path, new_path))
          => C24_SiblingsKept(full_path(tree_root, old_path),
                              full_path(tree_root, new_path))
      ]_vars

\* the part of C24 that holds: the same for the entries that do not have
\* old as a string prefix
C24_NonPrefixedKept ==
    [][\A old_path, new_path \in HandlePaths :
          (fs.kind = OVERLAY /\ RenameStep(old_path, new_path))
          => \A key \in DOMAIN fs.overlay :
                (/\ ~StartsWith(key, full_path(tree_root, old_path))
                 /\ key \notin C24_Destinations(fs,
                                    full_path(tree_root, old_path),
                                    full_path(tree_root, new_path)))
                => /\ key \in DOMAIN fs'.overlay
                   /\ Store_read_content(fs', key) = Store_read_content(fs, key)
                   /\ Store_get_file_mode(fs', key)
                         = Store_get_file_mode(fs, key)
      ]_vars

(***************************************************************************)
(* C25 (as claimed).  On an overlay store that holds no entry and no       *)
(* rename of its own, after rename(a, b) returned for a directory a of the *)
(* base and a path b outside a, every entry a/x of the base is read at b/x *)
(* with its content and mode, iter_subpaths(b) has b and every b/x, and    *)
(* iter_subpaths(a) is empty.                                              *)
(***************************************************************************)
\* the overlay store has made no change to its base
C25_Untouched(st) ==
    st.kind = OVERLAY /\ st.overlay_content = {} /\ st.renames = <<>>

\* the entries of the base below the directory at full path a
C25_BaseDescendants(st, a) == {q \in DOMAIN st.content : IsAncestor(a, q)}

\* rename(a, b) of this step is of a base directory with descendants
C25_DirectoryRenamed(a, b) ==
    /\ C25_Untouched(fs)
    /\ RenameStep(a, b)
    /\ a # b
    /\ ~IsAncestor(a, b)
    /\ Base_read_content(fs.content, full_path(tree_root, a)).exc = IsDirectory
    /\ C25_BaseDescendants(fs, full_path(tree_root, a)) # {}

C25_DescendantsRead(a, b) ==
    \A q \in C25_BaseDescendants(fs, a) :
       /\ Store_read_content(fs', C12_Moved(a, b, q))
             = Base_read_content(fs.content, q)
       /\ Store_get_file_mode(fs', C12_Moved(a, b, q))
             = Base_get_file_mode(fs.content, q)

C25_Enumerated(a, b) ==
    /\ Store_iter_subpaths(fs', b).exc = None
    /\ {b} \cup {C12_Moved(a, b, q) : q \in C25_BaseDescendants(fs, a)}
          \subseteq Store_iter_subpaths(fs', b).val
    /\ Store_iter_subpaths(fs', a) = Ret({})

C25_RenamedDirectoryVisible ==
    [][\A a, b \in HandlePaths :
          C25_DirectoryRenamed(a, b)
          => /\ C25_DescendantsRead(full_path(tree_root, a),
                                    full_path(tree_root, b))
             /\ C25_Enumerated(full_path(tree_root, a),
                               full_path(tree_root, b))
      ]_vars

\* the part of C25 that holds: b itself reads as the directory a of the
\* base and is in iter_subpaths(b)
C25_DirectoryItselfVisible ==
    [][\A a, b \in HandlePaths :
          C25_DirectoryRenamed(a, b)
          => /\ StoreTree_read_content(tree_root, fs', b).exc = IsDirectory
             /\ StoreTree_get_file_mode(tree_root, fs', b)
                   = Base_get_file_mode(fs.content, full_path(tree_root, a))
             /\ full_path(tree_root, b)
                   \in Store_iter_subpaths(fs', full_path(tree_root, b)).val
      ]_vars

(***************************************************************************)
(* C26 (as claimed).  With the transform on a subtree handle of a memory   *)
(* store, after an __exit__ that returned, of a with block left normally   *)
(* or by an exception, no entry of the temporary directory of the scope is *)
(* in the store and the transform is inactive; and the staged paths of a   *)
(* plan are relative to the target tree.                                   *)
(***************************************************************************)
\* the temporary directory of the scope, relative to the target tree
C26_RelativeTemp == relpath(tree_root, temp_tree)

\* the renames of a plan have one side in the temporary directory, given
\* relative to the target tree, and the other a path of the tree outside it
C26_PlanRelative(plan) ==
    \A i \in 1..Len(plan) :
       \E k \in {1, 2} :
          /\ StartsWith(plan[i][k], C26_RelativeTemp \o <<Sep>>)
          /\ ~StartsWith(plan[i][3 - k], C26_RelativeTemp)
          /\ ~StartsWith(plan[i][3 - k], tree_root \o <<Sep>>)

C26_SubtreeStagingReleased ==
    [][/\ \A raised \in BOOLEAN :
             (ExitStep(raised) /\ result'.exc = None)
             => /\ only_subpaths(temp_tree, AllKeys(fs')) = {}
                /\ ~active'
       /\ PlanStep => C26_PlanRelative(result'.val)
      ]_vars

\* the part of C26 that holds: in a scope that created no file the staged
\* paths of a plan are relative to the target tree, and an exit that
\* returns leaves the transform inactive
C26_RelocationsRelative ==
    [][/\ \A raised \in BOOLEAN :
             (ExitStep(raised) /\ result'.exc = None) => ~active'
       /\ (PlanStep /\ DOMAIN new_contents_path = {})
          => C26_PlanRelative(result'.val)
      ]_vars

(***************************************************************************)
(* C27.  No call on a tree over an overlay store (write_content, mkdir,    *)
(* rename, and rmtree with its enumeration and discards), whether it       *)
(* returns or raises, changes the store under the base of the overlay: its *)
(* entries, contents and modes stay as they were.                          *)
(***************************************************************************)
C27_BaseUnchanged ==
    [][fs.kind = OVERLAY
       => /\ fs'.kind = OVERLAY
          /\ fs'.content = fs.content
          /\ \A p \in AllKeys(fs) \cup AllKeys(fs') :
                /\ Base_read_content(fs'.content, p)
                      = Base_read_content(fs.content, p)
                /\ Base_get_file_mode(fs'.content, p)
                      = Base_get_file_mode(fs.content, p)
      ]_vars

\* on the overlay over the populated base, write_content('ab') with other
\* content and mode and then rmtree('a'): the overlay reads ab as written
\* and a as removed, the base holds what it held
C27_Witness ==
    /\ fs.kind = OVERLAY
    /\ tree_root = <<>>
    /\ ops = 2
    /\ result.op = "rmtree"
    /\ result.args = <<PathA>>
    /\ fs.content = Populate(<<>>, NewMemoryFileStore(EmptyTreeContent)).content
    /\ Store_read_content(fs, PathAb) = Ret(<<Hello>>)
    /\ Store_get_file_mode(fs, PathAb) = Ret(Mode644)
    /\ Base_read_content(fs.content, PathAb) = Ret(<<Bye>>)
    /\ Store_read_content(fs, PathAB).exc = NoSuchFile
    /\ Base_read_content(fs.content, PathAB) = Ret(<<Hello>>)

(***************************************************************************)
(* C28 (as claimed).  On a StoreTree whose entries other than the root all *)
(* have a directory as parent, a call of write_content, mkdir, rename or   *)
(* rmtree that returns leaves a tree of which the same is true.            *)
(***************************************************************************)
\* every entry of the store other than the root has a parent that is a
\* directory of the store
C28_Shaped(st) ==
    \A p \in AllKeys(st) :
       (p # <<>> /\ StoreExists(st, p))
       => Store_read_content(st, Dirname(p)).exc = IsDirectory

\* this step is a call of one of ops that returned, on a shaped tree
C28_Returned(calls) ==
    /\ ops' = ops + 1
    /\ result'.op \in calls
    /\ result'.exc = None
    /\ C28_Shaped(fs)

C28_ShapeKept ==
    [][C28_Returned({"write_content", "mkdir", "rename", "rmtree"})
       => C28_Shaped(fs')
      ]_vars

\* the part of C28 that holds: on the memory store, write_content at a
\* path that is not a directory, and rmtree, keep the shape
C28_ShapeKeptByWriteAndRmtree ==
    [][(/\ fs.kind = MEMORY
        /\ \/ C28_Returned({"rmtree"})
           \/ /\ C28_Returned({"write_content"})
              /\ StoreTree_read_content(tree_root, fs, result'.args[1]).exc
                    # IsDirectory)
       => C28_Shaped(fs')
      ]_vars

(***************************************************************************)
(* C29 (as claimed).  When a normal exit with write enabled applies its    *)
(* plan, the destination of every rename is unoccupied at the moment the   *)
(* rename is made, and after an exit that returned the tree outside the    *)
(* staging subtree has the entries it had, less the deleted ones, plus the *)
(* created files: none was replaced.                                       *)
(***************************************************************************)
\* rename k of the plan is made with its destination unoccupied
C29_Unoccupied(plan, k) ==
    \A s \in C19_After(fs, plan, k - 1) :
       ~StoreExists(s, full_path(tree_root, plan[k][2]))

\* the entries of the tree that delete was called with
C29_Deleted == {id \in remove_ids : IsExistingEntry(id)}

\* the number of entries outside the staging subtrees
C29_Entries(st) == Cardinality(DOMAIN OutsideStaging(st.content))

C29_NothingReplaced ==
    [][(ExitStep(FALSE) /\ write /\ active)
       => /\ \A k \in 1..Len(result'.val) : C29_Unoccupied(result'.val, k)
          /\ result'.exc = None
             => C29_Entries(fs') = C29_Entries(fs) - Cardinality(C29_Deleted)
                                     + Cardinality(DOMAIN new_contents_path)
      ]_vars

\* the part of C29 that holds: the relocations of a plan, which go into the
\* staging subtree, are made with their destination unoccupied
C29_RelocationsUnoccupied ==
    [][(ExitStep(FALSE) /\ write /\ active)
       => \A k \in Relocations(result'.val) : C29_Unoccupied(result'.val, k)
      ]_vars

(***************************************************************************)
(* C30 (amended).  A call get_final_path(id) that returns, for an          *)
(* identifier with name-info, returns get_name(id) when get_parent(id) is  *)
(* the root and otherwise get_final_path(get_parent(id)) joined with       *)
(* get_name(id); for an identifier without name-info it returns the        *)
(* original path of the identifier, whatever placement the ancestors of    *)
(* that path have been given.                                              *)
(***************************************************************************)
\* the final path of the parent joined with the name, from the queries
C30_Joined(id) ==
    IF get_parent(name_info, id).val = RootId
    THEN get_name(name_info, id).val
    ELSE OsJoin(FinalPath(get_parent(name_info, id).val).val,
                get_name(name_info, id).val)

\* this step is get_final_path(id) inside the with block, and it returned
C30_Returned(id) == QueryStep("get_final_path", id) /\ result'.exc = None

C30_FinalPathByNameInfo ==
    [][\A id \in ExistingIds \cup OKeys(name_info) :
          C30_Returned(id)
          => IF id \in OKeys(name_info)
             THEN result'.val = C30_Joined(id)
             ELSE result'.val = OrigPath(id)
      ]_vars

\* get_final_path('e-a/b') after set_name_info('e-a', 'e-.', 'b'): it
\* returns a/b, and the final path of e-a is b
C30_Witness ==
    /\ active
    /\ ops = 2
    /\ name_info = <<<<IdA, <<RootId, <<"b">>>>>>>>
    /\ result.op = "get_final_path"
    /\ result.args = <<IdAB>>
    /\ result.exc = None
    /\ result.val = PathAB
    /\ FinalPath(IdA) = Ret(<<"b">>)

(***************************************************************************)
(* C30 (as claimed).  A call get_final_path(id) that returns, for any      *)
(* identifier other than the root, with or without name-info, from which   *)
(* get_parent leads to the root, returns get_name(id) when get_parent(id)  *)
(* is the root and otherwise get_final_path(get_parent(id)) joined with    *)
(* get_name(id).                                                           *)
(***************************************************************************)
\* following get_parent from the identifier leads to the root in at most
\* fuel steps
RECURSIVE C30_ReachesRoot(_, _)
C30_ReachesRoot(id, fuel) ==
    \/ id = RootId
    \/ /\ fuel > 0
       /\ get_parent(name_info, id).exc = None
       /\ C30_ReachesRoot(get_parent(name_info, id).val, fuel - 1)

\* the parent relation above the identifier has no cycle: a chain without
\* repetition has at most one identifier for each entry of name-info and
\* for each segment of a path
C30_Acyclic(id) == C30_ReachesRoot(id, Len(name_info) + Len(id))

C30_FinalPathConsistent ==
    [][\A id \in ExistingIds \cup OKeys(name_info) :
          (C30_Returned(id) /\ C30_Acyclic(id))
          => result'.val = C30_Joined(id)
      ]_vars

====
